---- MODULE Spec2Model ----
(***************************************************************************)
(* School website CMS (server.js): session-guarded settings and carousel   *)
(* CRUD over Postgres, image blobs on Vercel Blob, sessions in Redis.      *)
(*                                                                         *)
(* A JavaScript string is modelled as a sequence of lexical units (Text):  *)
(* punctuation, digits, the literals null/true/false, letters, the double  *)
(* quote and the backslash.  JSON.stringify and JSON.parse are computed    *)
(* over these sequences.                                                   *)
(***************************************************************************)
EXTENDS Integers, Sequences, FiniteSets, TLC

\* ------------------------------------------------------------------------
\* JavaScript / JSON values
\* ------------------------------------------------------------------------
DQ == "\""
BS == "\\"
Digits == {"0", "5"}

JNull == [t |-> "null", a |-> <<>>, k |-> <<>>, c |-> <<>>]
JBool(b) == [t |-> "bool", a |-> <<IF b THEN "true" ELSE "false">>, k |-> <<>>, c |-> <<>>]
JNum(ds) == [t |-> "num", a |-> ds, k |-> <<>>, c |-> <<>>]
JStr(text) == [t |-> "str", a |-> text, k |-> <<>>, c |-> <<>>]
JArr(items) == [t |-> "arr", a |-> <<>>, k |-> <<>>, c |-> items]
JObj(keys, vals) == [t |-> "obj", a |-> <<>>, k |-> keys, c |-> vals]

EmptyObj == JObj(<<>>, <<>>)
EmptyArr == JArr(<<>>)

\* typeof value === 'object' && value !== null
IsObjectLike(v) == v.t \in {"arr", "obj"}

RECURSIVE Escape(_)
Escape(text) ==
    IF text = <<>> THEN <<>>
    ELSE (IF Head(text) \in {DQ, BS} THEN <<BS, Head(text)>> ELSE <<Head(text)>>)
         \o Escape(Tail(text))

RECURSIVE JoinComma(_)
JoinComma(parts) ==
    IF parts = <<>> THEN <<>>
    ELSE IF Len(parts) = 1 THEN parts[1]
    ELSE parts[1] \o <<",">> \o JoinComma(Tail(parts))

Quoted(text) == <<DQ>> \o Escape(text) \o <<DQ>>

\* JSON.stringify(value)
RECURSIVE JSONstringify(_)
JSONstringify(v) ==
    CASE v.t = "null" -> <<"null">>
      [] v.t \in {"bool", "num"} -> v.a
      [] v.t = "str" -> Quoted(v.a)
      [] v.t = "arr" ->
            <<"[">> \o JoinComma([i \in 1..Len(v.c) |-> JSONstringify(v.c[i])]) \o <<"]">>
      [] v.t = "obj" ->
            <<"{">> \o JoinComma([i \in 1..Len(v.c) |->
                          Quoted(v.k[i]) \o <<":">> \o JSONstringify(v.c[i])]) \o <<"}">>

ParseFail == [ok |-> FALSE, v |-> JNull, i |-> 0]
ParseOk(v, i) == [ok |-> TRUE, v |-> v, i |-> i]

\* The body of a string literal from position i (after the opening quote).
RECURSIVE ScanString(_, _, _)
ScanString(s, i, acc) ==
    IF i > Len(s) THEN ParseFail
    ELSE IF s[i] = DQ THEN ParseOk(JStr(acc), i + 1)
    ELSE IF s[i] = BS
         THEN IF i + 1 <= Len(s) /\ s[i + 1] \in {DQ, BS}
              THEN ScanString(s, i + 2, Append(acc, s[i + 1]))
              ELSE ParseFail
    ELSE ScanString(s, i + 1, Append(acc, s[i]))

\* The maximal run of digits from position i.
RECURSIVE ScanDigits(_, _, _)
ScanDigits(s, i, acc) ==
    IF i <= Len(s) /\ s[i] \in Digits
    THEN ScanDigits(s, i + 1, Append(acc, s[i]))
    ELSE IF Len(acc) > 1 /\ acc[1] = "0" THEN ParseFail ELSE ParseOk(JNum(acc), i)

\* Object member insertion: a repeated key keeps its place and takes the
\* later value.
PutMember(keys, vals, key, val) ==
    IF \E j \in 1..Len(keys) : keys[j] = key
    THEN [keys |-> keys,
          vals |-> [j \in 1..Len(vals) |-> IF keys[j] = key THEN val ELSE vals[j]]]
    ELSE [keys |-> Append(keys, key), vals |-> Append(vals, val)]

RECURSIVE ParseValue(_, _)
RECURSIVE ParseElems(_, _, _)
RECURSIVE ParseMembers(_, _, _, _)

ParseValue(s, i) ==
    IF i > Len(s) THEN ParseFail
    ELSE CASE s[i] = "null" -> ParseOk(JNull, i + 1)
           [] s[i] \in {"true", "false"} -> ParseOk(JBool(s[i] = "true"), i + 1)
           [] s[i] \in Digits -> ScanDigits(s, i, <<>>)
           [] s[i] = DQ -> ScanString(s, i + 1, <<>>)
           [] s[i] = "[" ->
                 IF i + 1 <= Len(s) /\ s[i + 1] = "]"
                 THEN ParseOk(EmptyArr, i + 2)
                 ELSE ParseElems(s, i + 1, <<>>)
           [] s[i] = "{" ->
                 IF i + 1 <= Len(s) /\ s[i + 1] = "}"
                 THEN ParseOk(EmptyObj, i + 2)
                 ELSE ParseMembers(s, i + 1, <<>>, <<>>)
           [] OTHER -> ParseFail

ParseElems(s, i, acc) ==
    LET r == ParseValue(s, i) IN
    IF ~r.ok \/ r.i > Len(s) THEN ParseFail
    ELSE IF s[r.i] = "," THEN ParseElems(s, r.i + 1, Append(acc, r.v))
    ELSE IF s[r.i] = "]" THEN ParseOk(JArr(Append(acc, r.v)), r.i + 1)
    ELSE ParseFail

ParseMembers(s, i, keys, vals) ==
    IF i > Len(s) \/ s[i] # DQ THEN ParseFail
    ELSE LET kr == ScanString(s, i + 1, <<>>) IN
         IF ~kr.ok \/ kr.i > Len(s) \/ s[kr.i] # ":" THEN ParseFail
         ELSE LET r == ParseValue(s, kr.i + 1) IN
              IF ~r.ok \/ r.i > Len(s) THEN ParseFail
              ELSE LET m == PutMember(keys, vals, kr.v.a, r.v) IN
                   IF s[r.i] = "," THEN ParseMembers(s, r.i + 1, m.keys, m.vals)
                   ELSE IF s[r.i] = "}" THEN ParseOk(JObj(m.keys, m.vals), r.i + 1)
                   ELSE ParseFail

\* JSON.parse(text): ok = FALSE stands for the SyntaxError it throws.
JSONparse(s) ==
    LET r == ParseValue(s, 1) IN
    IF r.ok /\ r.i = Len(s) + 1 THEN [ok |-> TRUE, v |-> r.v] ELSE [ok |-> FALSE, v |-> JNull]


\* JavaScript truthiness of a request value (value || '')
Truthy(v) ==
    CASE v.t \in {"null", "undef"} -> FALSE
      [] v.t = "bool" -> v.a = <<"true">>
      [] v.t = "num" -> \E j \in 1..Len(v.a) : v.a[j] # "0"
      [] v.t = "str" -> v.a # <<>>
      [] OTHER -> TRUE

\* String(value) for a primitive value
JSString(v) ==
    CASE v.t = "null" -> <<"null">>
      [] v.t = "undef" -> <<"undefined">>
      [] OTHER -> v.a

\* ------------------------------------------------------------------------
\* Settings store
\* ------------------------------------------------------------------------
jsonKeys == {"socialLinks", "facilityCards", "heroGradient", "aboutGradient",
             "admissionsGradient", "academicsGradient", "facilitiesGradient",
             "contactGradient"}

\* Faulty variant: String(value) for every value, objects and arrays included.
ValueToStoreNoStringify(v) ==
    IF ~Truthy(v) THEN <<>>
    ELSE IF v.t = "obj" THEN <<"[object Object]">>
    ELSE IF v.t = "arr" THEN <<"[array]">>
    ELSE JSString(v)

\* POST /api/settings: the text stored for a request value
ValueToStore(v) ==
    IF IsObjectLike(v) THEN JSONstringify(v)
    ELSE IF Truthy(v) THEN JSString(v) ELSE <<>>

\* GET /api/settings: the fallback of a JSON key
DefaultValue(name) == IF name = "facilityCards" THEN EmptyArr ELSE EmptyObj

\* Faulty variant: JSON.parse without the inner try/catch.
SettingValueNoCatch(name, stored) ==
    IF name \in jsonKeys
    THEN IF stored # <<>>
         THEN LET p == JSONparse(stored) IN [ok |-> p.ok, v |-> p.v]
         ELSE [ok |-> TRUE, v |-> DefaultValue(name)]
    ELSE [ok |-> TRUE, v |-> JStr(stored)]

\* GET /api/settings, the body of rows.forEach: the value reported for one
\* row; ok = FALSE stands for an exception leaving the callback.
SettingValue(name, stored) ==
    IF name \in jsonKeys
    THEN IF stored # <<>>
         THEN LET p == JSONparse(stored) IN
              IF p.ok THEN [ok |-> TRUE, v |-> p.v]
              ELSE [ok |-> TRUE, v |-> DefaultValue(name)]
         ELSE [ok |-> TRUE, v |-> DefaultValue(name)]
    ELSE [ok |-> TRUE, v |-> JStr(stored)]

\* Faulty variant: INSERT without ON CONFLICT on a table without the UNIQUE constraint.
UpsertPlainInsert(table, name, value) ==
    table \cup {[setting_name |-> name, setting_value |-> value]}

\* INSERT ... ON CONFLICT (setting_name) DO UPDATE on a table of rows
Upsert(table, name, value) ==
    {row \in table : row.setting_name # name}
        \cup {[setting_name |-> name, setting_value |-> value]}

RECURSIVE ApplyWrites(_, _)
ApplyWrites(table, ws) ==
    IF ws = <<>> THEN table
    ELSE ApplyWrites(Upsert(table, Head(ws).setting_name, Head(ws).setting_value), Tail(ws))

SettingNames(table) == {row.setting_name : row \in table}

\* GET /api/settings: the settings object built from the rows, name -> value
RowValue(table, n) ==
    SettingValue(n, (CHOOSE row \in table : row.setting_name = n).setting_value)

GetAllThrows(table) == \E n \in SettingNames(table) : ~RowValue(table, n).ok

GetAll(table) == [n \in SettingNames(table) |-> RowValue(table, n).v]

\* ------------------------------------------------------------------------
\* Carousel store
\* ------------------------------------------------------------------------
Url(n) == <<"http", n>>
NoUrl == <<"none", 0>>
StartsWithHttp(u) == u[1] = "http"

\* Faulty variant: COUNT(*) + 1 in place of MAX(display_order) + 1.
NextDisplayOrderCount(table) == Cardinality(table) + 1

\* (SELECT COALESCE(MAX(display_order), 0) + 1 FROM carousel_images)
NextDisplayOrder(table) ==
    IF table = {} THEN 1
    ELSE (CHOOSE m \in {row.display_order : row \in table} :
             \A row \in table : row.display_order <= m) + 1

\* Faulty variant: ORDER BY display_order ASC, id DESC.
RowBeforeIdDesc(x, y) ==
    \/ x.display_order < y.display_order
    \/ x.display_order = y.display_order /\ x.id > y.id

\* ORDER BY display_order ASC, id ASC
RowBefore(x, y) ==
    \/ x.display_order < y.display_order
    \/ x.display_order = y.display_order /\ x.id < y.id

RECURSIVE ListCarousel(_)
ListCarousel(table) ==
    IF table = {} THEN <<>>
    ELSE LET first == CHOOSE x \in table : \A y \in table \ {x} : RowBefore(x, y)
         IN <<first>> \o ListCarousel(table \ {first})

\* Faulty variant: every blob error leaves the inner try.
OnBlobErrorThrow(outcome) == "throw"

\* The catch around head()/del() in DELETE /api/carousel/:id: what the
\* handler does with a blob error ("continue" to COMMIT, or "throw").
OnBlobError(outcome) == "continue"

\* ------------------------------------------------------------------------
\* Sessions and users
\* ------------------------------------------------------------------------
NoSession == [exists |-> FALSE, authenticated |-> FALSE, username |-> ""]
FreshSession == [exists |-> TRUE, authenticated |-> FALSE, username |-> ""]
AuthSession(u) == [exists |-> TRUE, authenticated |-> TRUE, username |-> u]

\* Faulty variant: a guard that only checks that a session object exists.
CheckAuthAnySession(sess) == sess.exists

\* if (req.session && req.session.authenticated)
CheckAuth(sess) == sess.exists /\ sess.authenticated

Hash(plain) == <<"bcrypt", plain>>
\* Faulty variant: the result of the comparison is not looked at.
BcryptCompareAny(plain, hashed) == TRUE

BcryptCompare(plain, hashed) == hashed = Hash(plain)


\* ------------------------------------------------------------------------
\* Bounds and inputs
\* ------------------------------------------------------------------------
MaxSid == 1          \* session ids issued by regenerate
MaxUploads == 3      \* blobs uploaded by POST /api/carousel (carousel store alone)
MaxUploadsAll == 2   \* blobs uploaded by POST /api/carousel (whole server)

NoCookie == 0

Usernames == {"admin", "guest"}
Passwords == {"password123", "wrong"}
defaultAdminUsername == "admin"
defaultAdminPasswordPlain == "password123"

\* Values used in request bodies
CardList == JArr(<<JObj(<< <<"x">> >>, <<JStr(<<"y", DQ>>)>>)>>)
Links == JObj(<< <<"x">>, <<"y">> >>, <<JStr(<<>>), JArr(<<JNum(<<"5">>), JNull>>)>>)

\* Request bodies of POST /api/settings: sequences of <<name, value>> in
\* Object.entries order.
SmallBodies ==
    { << <<"facilityCards", CardList>>, <<"schoolName", JStr(<<"x">>)>> >>,
      << <<"schoolName", JStr(<<"y">>)>>, <<"facilityCards", EmptyArr>> >>,
      << <<"schoolName", JStr(<<"x">>)>> >>,
      << >> }

\* Values a client can send for a JSON key: objects and arrays, strings that
\* are or are not JSON text, and primitives.
ObjectValues == {EmptyObj, EmptyArr, CardList, Links}
StringValues ==
    {JStr(<<>>), JStr(<<"x">>), JStr(<<"[", "5">>), JStr(<<"null">>),
     JStr(<<"{", DQ, "x", DQ, ":", "0", "5", "}">>), JStr(<<"{", "}">>)}
PrimitiveValues == {JNum(<<"5">>), JNum(<<"0">>), JBool(TRUE), JBool(FALSE), JNull}
RichValues == ObjectValues \cup StringValues \cup PrimitiveValues

RichBodies ==
    { << <<n, v>> >> : n \in {"facilityCards", "socialLinks"}, v \in RichValues }
        \cup { << <<"schoolName", JStr(<<"x">>)>>, <<"heroGradient", Links>>,
                  <<"aboutGradient", EmptyObj>>, <<"admissionsGradient", Links>>,
                  <<"academicsGradient", CardList>>, <<"facilitiesGradient", Links>>,
                  <<"contactGradient", EmptyArr>> >> }

OneBody == { << <<"facilityCards", CardList>>, <<"schoolName", JStr(<<"x">>)>> >> }

\* ------------------------------------------------------------------------
\* Contact form
\* ------------------------------------------------------------------------
\* A contact form with no field filled in, and the absence of mailOptions
NoForm == [contactName |-> <<>>, contactEmail |-> <<>>, contactSubject |-> <<>>,
           contactMessage |-> <<>>]
NoMail == [replyTo |-> <<>>, to |-> <<>>, subject |-> <<>>]

\* process.env with nothing set and no mail transporter
NoEnv == [CONTACT_FORM_ACTION_DEFAULT |-> <<>>, SCHOOL_WHATSAPP_NUMBER |-> <<>>,
          SCHOOL_CONTACT_EMAIL_TO |-> <<>>, mailTransporter |-> FALSE]

\* process.env of a server set up to mail the contact forms
EnvNumber == <<"0", "0", "7">>
EnvEmail == <<"env", "@", "school", ".", "in">>
ServerEnv == [CONTACT_FORM_ACTION_DEFAULT |-> <<"email">>, SCHOOL_WHATSAPP_NUMBER |-> EnvNumber,
              SCHOOL_CONTACT_EMAIL_TO |-> EnvEmail, mailTransporter |-> TRUE]

\* a || b on strings: the empty string (and a missing value) is falsy
Or(a, b) == IF a # <<>> THEN a ELSE b

\* Faulty variant: the four fields are not checked.
FieldMissingNever(form) == FALSE

\* if (!contactName || !contactEmail || !contactSubject || !contactMessage)
FieldMissing(form) ==
    \/ form.contactName = <<>>
    \/ form.contactEmail = <<>>
    \/ form.contactSubject = <<>>
    \/ form.contactMessage = <<>>

\* settings[row.setting_name] = row.setting_value over the rows selected;
\* a name without a row reads as undefined (falsy, here the empty string)
ContactSettingNames == {"contactFormAction", "schoolContactEmail", "adminSchoolWhatsappNumber"}

ContactSettings(table) ==
    [n \in ContactSettingNames |->
        IF \E row \in table : row.setting_name = n
        THEN (CHOOSE row \in table : row.setting_name = n).setting_value
        ELSE <<>>]

\* let settings = {} when the query throws
NoContactSettings == [n \in ContactSettingNames |-> <<>>]

\* Faulty variant: the environment default takes precedence over the store.
ContactFormActionEnvFirst(cfg, e) ==
    Or(Or(e.CONTACT_FORM_ACTION_DEFAULT, cfg["contactFormAction"]), <<"whatsapp">>)

\* settings.contactFormAction || process.env.CONTACT_FORM_ACTION_DEFAULT || 'whatsapp'
ContactFormAction(cfg, e) ==
    Or(Or(cfg["contactFormAction"], e.CONTACT_FORM_ACTION_DEFAULT), <<"whatsapp">>)

\* settings.adminSchoolWhatsappNumber || process.env.SCHOOL_WHATSAPP_NUMBER
WhatsAppNumber(cfg, e) == Or(cfg["adminSchoolWhatsappNumber"], e.SCHOOL_WHATSAPP_NUMBER)

\* settings.schoolContactEmail || process.env.SCHOOL_CONTACT_EMAIL_TO
RecipientEmail(cfg, e) == Or(cfg["schoolContactEmail"], e.SCHOOL_CONTACT_EMAIL_TO)

\* whatsAppNumber.replace(/\D/g, '')
DecimalDigits == {"0", "1", "2", "3", "4", "5", "6", "7", "8", "9"}
\* Faulty variant: replace(/\s/g, '') removes the blanks only.
DigitsOnlyBlanks(text) == SelectSeq(text, LAMBDA ch : ch # " ")

DigitsOnly(text) == SelectSeq(text, LAMBDA ch : ch \in DecimalDigits)

\* encodeURIComponent, token by token: the reserved characters are escaped,
\* every other token (letters, digits, - _ . ! ~ * ' ( )) is kept.
EncodeToken(ch) ==
    CASE ch = " " -> "%20"
      [] ch = "\n" -> "%0A"
      [] ch = ":" -> "%3A"
      [] ch = "@" -> "%40"
      [] ch = "&" -> "%26"
      [] ch = "+" -> "%2B"
      [] ch = "%" -> "%25"
      [] ch = "?" -> "%3F"
      [] ch = "=" -> "%3D"
      [] ch = "/" -> "%2F"
      [] ch = "#" -> "%23"
      [] OTHER -> ch

EncodeURIComponent(text) == [j \in 1..Len(text) |-> EncodeToken(text[j])]

\* `New Contact Form Submission:\nName: ...\nEmail: ...\nSubject: ...\nMessage:\n...`
WhatsappMessageBody(form) ==
    <<"New", " ", "Contact", " ", "Form", " ", "Submission", ":", "\n", "Name", ":", " ">>
        \o form.contactName \o <<"\n", "Email", ":", " ">>
        \o form.contactEmail \o <<"\n", "Subject", ":", " ">>
        \o form.contactSubject \o <<"\n", "Message", ":", "\n">>
        \o form.contactMessage

\* `https://wa.me/${number.replace(/\D/g, '')}?text=${encodeURIComponent(body)}`
WhatsappUrl(number, form) ==
    <<"https://wa.me/">> \o DigitsOnly(number) \o <<"?text=">>
        \o EncodeURIComponent(WhatsappMessageBody(form))

\* mailOptions: the fields of the message that depend on the request
MailOptions(form, recipient) ==
    [replyTo |-> form.contactEmail, to |-> recipient,
     subject |-> <<"New", " ", "Contact", " ", "Form", ":", " ">> \o form.contactSubject]

\* ------------------------------------------------------------------------
\* State
\* ------------------------------------------------------------------------
VARIABLES
    sessionMw,   \* session middleware installed (redisStore initialised)
    store,       \* session store: sid -> session
    nextSid,     \* next session id generated by regenerate
    users,       \* users table
    settings,    \* settings table (committed rows)
    carousel,    \* carousel_images table (committed rows)
    nextId,      \* SERIAL of carousel_images.id
    blobs,       \* urls present in the blob store
    nextBlob,    \* next generated blob filename
    inserted,    \* history: ids in order of completed INSERT
    loggedOut,   \* history: session ids a logout answered 200 for
    env,         \* process.env and the mail transporter built from it
    mails,       \* history: every sendMail call, its mailOptions and outcome
    boot,        \* per server process: its position in initializeDatabase()
    req          \* one record per request slot: the handler's position and locals

vars == <<sessionMw, store, nextSid, users, settings, carousel, nextId, blobs,
          nextBlob, inserted, loggedOut, env, mails, boot, req>>

dbVars == <<settings, carousel, nextId, blobs, nextBlob, inserted>>
sessVars == <<sessionMw, store, nextSid, users, loggedOut>>
procVars == <<env, mails, boot>>

\* The server processes and where each is in initializeDatabase()
Procs == {"p1", "p2"}
Down == [pc |-> "off", plain |-> "", err |-> FALSE, n |-> 0]
Up == [pc |-> "up", plain |-> defaultAdminPasswordPlain, err |-> FALSE, n |-> 1]

AllSlots == {"r1", "r2"}

\* The session cookie a request can carry: none, or an id the server has
\* sent in a response (a generated id is random: no client holds it before
\* the login that generated it has answered).
Cookies ==
    {NoCookie} \cup {s \in 1..(nextSid - 1) :
                        \A r \in AllSlots : ~(req[r].pc = "l_save" /\ req[r].sid = s)}

IdleReq ==
    [route |-> "", pc |-> "idle", cookie |-> NoCookie, body |-> <<>>, i |-> 0,
     ws |-> <<>>, rows |-> {}, id |-> 0, url |-> NoUrl, blobError |-> "",
     locked |-> FALSE, status |-> 0, loc |-> "", out |-> <<>>, list |-> <<>>,
     username |-> "", password |-> "", sid |-> 0, redirectTo |-> "", err |-> "",
     form |-> NoForm, queried |-> "no", contactFormAction |-> <<>>,
     mailOptions |-> NoMail, sent |-> 0, action |-> "", whatsappUrl |-> <<>>]

NewReq(route, cookie) == [IdleReq EXCEPT !.route = route, !.cookie = cookie]

\* The response: status 0 stands for a request that never gets a response
\* (the handler's promise rejected).
Respond(q, status) ==
    [q EXCEPT !.pc = "done", !.status = status, !.body = <<>>, !.i = 0, !.ws = <<>>,
              !.rows = {}, !.id = 0, !.url = NoUrl, !.locked = FALSE,
              !.username = "", !.password = ""]

Redirect(q, where) == [Respond(q, 302) EXCEPT !.loc = where]

Free(r) == req[r].pc = "idle"

\* Faulty variant: a session object exists whether or not the middleware is
\* installed.
SessionUnconditional(cookie) ==
    IF cookie \in DOMAIN store THEN store[cookie] ELSE FreshSession

\* req.session as the session middleware provides it
Session(cookie) ==
    IF ~sessionMw THEN NoSession
    ELSE IF cookie \in DOMAIN store THEN store[cookie]
    ELSE FreshSession

Init ==
    /\ sessionMw \in BOOLEAN
    /\ store = << >>
    /\ loggedOut = {}
    /\ env = ServerEnv
    /\ mails = << >>
    /\ boot = [p \in Procs |-> Up]
    /\ nextSid = 1
    /\ users = {[username |-> defaultAdminUsername,
                 password |-> Hash(defaultAdminPasswordPlain)]}
    /\ settings = {}
    /\ carousel = {}
    /\ nextId = 1
    /\ blobs = {}
    /\ nextBlob = 1
    /\ inserted = << >>
    /\ req = [r \in AllSlots |-> IdleReq]


\* ------------------------------------------------------------------------
\* POST /login and POST /api/logout
\* ------------------------------------------------------------------------
\* The field check and the req.session check; an empty username stands for a
\* request with a missing field.
Login(r) ==
    \E cookie \in Cookies, username \in Usernames \cup {""}, password \in Passwords :
    LET q == NewReq("POST /login", cookie) IN
    /\ Free(r)
    /\ UNCHANGED <<dbVars, sessVars, procVars>>
    /\ req' = [req EXCEPT ![r] =
                  IF username = "" THEN Redirect(q, "/login.html?error=required")
                  ELSE IF ~Session(cookie).exists
                  THEN Redirect(q, "/login.html?error=session-config")
                  ELSE [q EXCEPT !.pc = "l_query", !.username = username,
                                 !.password = password]]

\* Faulty variant: the query has no WHERE clause, so the password is
\* compared with whatever row comes first.
LoginQueryAnyRow(r) ==
    \E ok \in BOOLEAN :
    LET q == req[r] IN
    /\ q.pc = "l_query"
    /\ UNCHANGED <<dbVars, sessVars, procVars>>
    /\ req' = [req EXCEPT ![r] =
                  IF ~ok THEN [Redirect(q, "/login.html?error=server") EXCEPT !.err = "db"]
                  ELSE IF users = {} \/ \A u \in users : ~BcryptCompare(q.password, u.password)
                  THEN Redirect(q, "/login.html?error=invalid")
                  ELSE [q EXCEPT !.pc = "l_regen"]]

\* SELECT * FROM users WHERE username = $1 and bcrypt.compare
LoginQuery(r) ==
    \E ok \in BOOLEAN :
    LET q == req[r]
        found == {u \in users : u.username = q.username}
    IN
    /\ q.pc = "l_query"
    /\ UNCHANGED <<dbVars, sessVars, procVars>>
    /\ req' = [req EXCEPT ![r] =
                  IF ~ok THEN [Redirect(q, "/login.html?error=server") EXCEPT !.err = "db"]
                  ELSE IF found = {} \/ \A u \in found : ~BcryptCompare(q.password, u.password)
                  THEN Redirect(q, "/login.html?error=invalid")
                  ELSE [q EXCEPT !.pc = "l_regen"]]

\* Faulty variant: the cookie is cleared and the stored session is kept.
DestroyNothing(table, sid) == table

\* store.destroy(sid)
Destroy(table, sid) == [s \in DOMAIN table \ {sid} |-> table[s]]

\* Faulty variant: the session keeps the id the client presented.
RegeneratedIdKept(cookie, fresh) == IF cookie # NoCookie THEN cookie ELSE fresh

\* store.generate(req): the id of the regenerated session
RegeneratedId(cookie, fresh) == fresh

\* req.session.regenerate: the store destroys the presented session and a
\* new session id is generated.
LoginRegenerate(r, maxSid) ==
    \E ok \in BOOLEAN :
    LET q == req[r] IN
    /\ q.pc = "l_regen"
    /\ UNCHANGED <<dbVars, sessionMw, users, loggedOut, procVars>>
    /\ IF ok
       THEN /\ nextSid <= maxSid
            /\ nextSid' = nextSid + 1
            /\ store' = Destroy(store, q.cookie)
            /\ req' = [req EXCEPT ![r] = [q EXCEPT !.pc = "l_save",
                                         !.sid = RegeneratedId(q.cookie, nextSid)]]
       ELSE /\ UNCHANGED <<store, nextSid>>
            /\ req' = [req EXCEPT ![r] =
                          [Redirect(q, "/login.html?error=session") EXCEPT !.err = "regenerate"]]

\* The store after the session of request q is written to it
Saved(table, q) ==
    [s \in DOMAIN table \cup {q.sid} |->
        IF s = q.sid THEN AuthSession(q.username) ELSE table[s]]

\* Faulty variant: the success redirect is sent without waiting for the
\* result of save.
LoginSaveEarly(r) ==
    \E ok \in BOOLEAN :
    LET q == req[r] IN
    /\ q.pc = "l_save"
    /\ UNCHANGED <<dbVars, sessionMw, users, nextSid, loggedOut, procVars>>
    /\ store' = IF ok THEN Saved(store, q) ELSE store
    /\ req' = [req EXCEPT ![r] = Redirect(q, "/admin.html")]

\* req.session.authenticated = true; req.session.username = user.username;
\* req.session.save(...).  After a failed save the session middleware saves
\* the modified session once more when the response ends, which may succeed.
LoginSave(r) ==
    \E ok \in BOOLEAN :
    LET q == req[r] IN
    /\ q.pc = "l_save"
    /\ UNCHANGED <<dbVars, sessionMw, users, nextSid, loggedOut, procVars>>
    /\ IF ok
       THEN /\ store' = Saved(store, q)
            /\ req' = [req EXCEPT ![r] = Redirect(q, "/admin.html")]
       ELSE /\ store' \in {store, Saved(store, q)}
            /\ req' = [req EXCEPT ![r] =
                          [Redirect(q, "/login.html?error=save") EXCEPT !.err = "save"]]

\* Faulty variant: a logout that insists on an authenticated session.
LogoutStatusStrict(sess, destroyed) ==
    IF ~sess.authenticated THEN 401 ELSE IF destroyed THEN 200 ELSE 500

\* POST /api/logout: the status answered for req.session, given whether
\* destroy succeeded
LogoutStatus(sess, destroyed) ==
    IF sess.exists THEN (IF destroyed THEN 200 ELSE 500) ELSE 200

Logout(r) ==
    \E cookie \in Cookies, ok \in BOOLEAN :
    LET q == NewReq("POST /api/logout", cookie)
        sess == Session(cookie)
    IN
    /\ Free(r)
    /\ UNCHANGED <<dbVars, sessionMw, users, nextSid, procVars>>
    /\ store' = IF sess.exists /\ ok THEN Destroy(store, cookie) ELSE store
    /\ loggedOut' = IF LogoutStatus(sess, ok) = 200
                    THEN loggedOut \cup ({cookie} \ {NoCookie}) ELSE loggedOut
    /\ req' = [req EXCEPT ![r] =
                  [Respond(q, LogoutStatus(sess, ok)) EXCEPT
                      !.err = IF sess.exists /\ ~ok THEN "destroy" ELSE ""]]

\* checkAuth's answer to a request that is not authenticated
OriginalUrl(route) ==
    CASE route = "GET /admin" -> <<"admin">>
      [] route = "POST /api/settings" -> <<"api", "settings">>
      [] route = "POST /api/carousel" -> <<"api", "carousel">>
      [] route = "DELETE /api/carousel" -> <<"api", "carousel", ":id">>

\* Faulty variant: no path is taken for an API path.
StartsWithApiNever(path) == FALSE

\* req.originalUrl.startsWith('/api/')
StartsWithApi(path) == Len(path) >= 2 /\ path[1] = "api"

Unauthorized(q) ==
    IF StartsWithApi(OriginalUrl(q.route))
    THEN [Respond(q, 401) EXCEPT !.redirectTo = "/login.html?unauthorized=true"]
    ELSE Redirect(q, "/login.html?unauthorized=true")

\* GET /admin: checkAuth, then res.sendFile
GetAdmin(r) ==
    \E cookie \in Cookies :
    LET q == NewReq("GET /admin", cookie) IN
    /\ Free(r)
    /\ UNCHANGED <<dbVars, sessVars, procVars>>
    /\ req' = [req EXCEPT ![r] =
                  IF CheckAuth(Session(cookie))
                  THEN [Respond(q, 200) EXCEPT !.out = <<"admin.html">>]
                  ELSE Unauthorized(q)]

\* ------------------------------------------------------------------------
\* GET /api/settings, POST /api/settings
\* ------------------------------------------------------------------------
\* db.query('SELECT setting_name, setting_value FROM settings')
GetSettings(r) ==
    \E ok \in BOOLEAN :
    LET q == NewReq("GET /api/settings", NoCookie) IN
    /\ Free(r)
    /\ UNCHANGED <<dbVars, sessVars, procVars>>
    /\ req' = [req EXCEPT ![r] =
                  IF ok THEN [q EXCEPT !.pc = "g_rows", !.rows = settings]
                  ELSE Respond(q, 500)]

\* rows.forEach(...); res.json(settings), inside the handler's try
GetSettingsReply(r) ==
    /\ req[r].pc = "g_rows"
    /\ UNCHANGED <<dbVars, sessVars, procVars>>
    /\ req' = [req EXCEPT ![r] =
                  IF GetAllThrows(req[r].rows) THEN Respond(req[r], 500)
                  ELSE [Respond(req[r], 200) EXCEPT !.out = GetAll(req[r].rows)]]

\* checkAuth, the body check and db.connect()
PostSettings(r, bodies) ==
    \E cookie \in Cookies :
    LET q == NewReq("POST /api/settings", cookie) IN
    /\ Free(r)
    /\ UNCHANGED <<dbVars, sessVars, procVars>>
    /\ IF ~CheckAuth(Session(cookie))
       THEN req' = [req EXCEPT ![r] = Unauthorized(q)]
       ELSE \/ req' = [req EXCEPT ![r] = Respond(q, 400)]
            \/ req' = [req EXCEPT ![r] = Respond(q, 0)]
            \/ \E body \in bodies :
                  req' = [req EXCEPT ![r] = [q EXCEPT !.pc = "s_begin", !.body = body]]

\* The statement inside the transaction: the row joins the write set.
TxUpsert(ws, name, value) ==
    Append(ws, [setting_name |-> name, setting_value |-> value])

\* Faulty variant: statements that were not run inside the transaction stay written.
RollbackSettingsAutocommit(table, ws) == ApplyWrites(table, ws)

\* COMMIT and ROLLBACK of the settings transaction
CommitSettings(table, ws) == ApplyWrites(table, ws)
RollbackSettings(table, ws) == table

SettingsBegin(r) ==
    \E ok \in BOOLEAN :
    /\ req[r].pc = "s_begin"
    /\ UNCHANGED <<dbVars, sessVars, procVars>>
    /\ req' = [req EXCEPT ![r].pc =
                  IF ~ok THEN "s_rollback"
                  ELSE IF Len(req[r].body) = 0 THEN "s_commit" ELSE "s_upsert",
                          ![r].i = 1]

SettingsUpsert(r) ==
    \E ok \in BOOLEAN :
    LET q == req[r]
        entry == q.body[q.i]
    IN
    /\ q.pc = "s_upsert"
    /\ UNCHANGED <<dbVars, sessVars, procVars>>
    /\ req' = [req EXCEPT ![r] =
                  IF ~ok THEN [q EXCEPT !.pc = "s_rollback"]
                  ELSE [q EXCEPT !.ws = TxUpsert(q.ws, entry[1], ValueToStore(entry[2])),
                                 !.i = q.i + 1,
                                 !.pc = IF q.i = Len(q.body) THEN "s_commit"
                                        ELSE "s_upsert"]]

SettingsCommit(r) ==
    \E ok \in BOOLEAN :
    /\ req[r].pc = "s_commit"
    /\ UNCHANGED <<carousel, nextId, blobs, nextBlob, inserted, sessVars, procVars>>
    /\ IF ok
       THEN /\ settings' = CommitSettings(settings, req[r].ws)
            /\ req' = [req EXCEPT ![r] = Respond(req[r], 200)]
       ELSE /\ settings' = settings
            /\ req' = [req EXCEPT ![r].pc = "s_rollback"]

\* catch: ROLLBACK, then the 500 response; a failing ROLLBACK rejects the
\* handler's promise and no response is sent.
SettingsRollback(r) ==
    \E ok \in BOOLEAN :
    /\ req[r].pc = "s_rollback"
    /\ UNCHANGED <<carousel, nextId, blobs, nextBlob, inserted, sessVars, procVars>>
    /\ settings' = RollbackSettings(settings, req[r].ws)
    /\ req' = [req EXCEPT ![r] = Respond(req[r], IF ok THEN 500 ELSE 0)]


\* ------------------------------------------------------------------------
\* GET /api/carousel, POST /api/carousel
\* ------------------------------------------------------------------------
\* The public routes do not read the session: their requests carry no cookie.
GetCarousel(r) ==
    \E ok \in BOOLEAN :
    LET q == NewReq("GET /api/carousel", NoCookie) IN
    /\ Free(r)
    /\ UNCHANGED <<dbVars, sessVars, procVars>>
    /\ req' = [req EXCEPT ![r] =
                  IF ok THEN [Respond(q, 200) EXCEPT !.list = ListCarousel(carousel)]
                  ELSE Respond(q, 500)]

\* checkAuth, multer and the file check
PostCarousel(r) ==
    \E cookie \in Cookies :
    LET q == NewReq("POST /api/carousel", cookie) IN
    /\ Free(r)
    /\ UNCHANGED <<dbVars, sessVars, procVars>>
    /\ IF ~CheckAuth(Session(cookie))
       THEN req' = [req EXCEPT ![r] = Unauthorized(q)]
       ELSE \E hasFile \in BOOLEAN :
               req' = [req EXCEPT ![r] =
                          IF hasFile THEN [q EXCEPT !.pc = "a_put"] ELSE Respond(q, 400)]

\* put(blobFilename, ...): every generated filename is new
CarouselPut(r, maxUploads) ==
    \E ok \in BOOLEAN :
    /\ req[r].pc = "a_put"
    /\ UNCHANGED <<settings, carousel, nextId, inserted, sessVars, procVars>>
    /\ IF ok
       THEN /\ nextBlob <= maxUploads
            /\ blobs' = blobs \cup {Url(nextBlob)}
            /\ nextBlob' = nextBlob + 1
            /\ req' = [req EXCEPT ![r].pc = "a_insert", ![r].url = Url(nextBlob)]
       ELSE /\ UNCHANGED <<blobs, nextBlob>>
            /\ req' = [req EXCEPT ![r] = Respond(req[r], 500)]

\* The row INSERT ... RETURNING * adds
NewRow(table, id, url) ==
    [id |-> id, image_url |-> url, display_order |-> NextDisplayOrder(table)]

\* Faulty variant: a failed INSERT sends the request back to the upload.
CarouselInsertRetry(r) ==
    \E ok \in BOOLEAN :
    /\ req[r].pc = "a_insert"
    /\ UNCHANGED <<settings, blobs, nextBlob, sessVars, procVars>>
    /\ IF ok
       THEN /\ carousel' = carousel \cup {NewRow(carousel, nextId, req[r].url)}
            /\ nextId' = nextId + 1
            /\ inserted' = Append(inserted, nextId)
            /\ req' = [req EXCEPT ![r] = Respond(req[r], 201)]
       ELSE /\ UNCHANGED <<carousel, nextId, inserted>>
            /\ req' = [req EXCEPT ![r].pc = "a_put"]

CarouselInsert(r) ==
    \E ok \in BOOLEAN :
    /\ req[r].pc = "a_insert"
    /\ UNCHANGED <<settings, blobs, nextBlob, sessVars, procVars>>
    /\ IF ok
       THEN /\ carousel' = carousel \cup {NewRow(carousel, nextId, req[r].url)}
            /\ nextId' = nextId + 1
            /\ inserted' = Append(inserted, nextId)
            /\ req' = [req EXCEPT ![r] = Respond(req[r], 201)]
       ELSE /\ UNCHANGED <<carousel, nextId, inserted>>
            /\ req' = [req EXCEPT ![r] = Respond(req[r], 500)]

\* ------------------------------------------------------------------------
\* DELETE /api/carousel/:id
\* ------------------------------------------------------------------------
\* A row deleted inside an open transaction is locked until the
\* transaction ends.
LockedByOther(r, id) ==
    \E o \in AllSlots \ {r} : req[o].locked /\ req[o].id = id

RowsWithId(table, id) == {row \in table : row.id = id}

\* Faulty variant: a delete that closes the gap in display_order.
CommitDeleteRenumber(table, id) ==
    LET gone == RowsWithId(table, id) IN
    { [row EXCEPT !.display_order =
           IF \E g \in gone : g.display_order < row.display_order
           THEN row.display_order - 1 ELSE row.display_order]
      : row \in table \ gone }

\* DELETE FROM carousel_images WHERE id = $1, applied at COMMIT
CommitDelete(table, id) == table \ RowsWithId(table, id)

\* checkAuth, parseInt and db.connect(); id 0 stands for a parameter that is
\* not a number.
DeleteCarousel(r, maxUploads) ==
    \E cookie \in Cookies, id \in 0..maxUploads :
    LET q == [NewReq("DELETE /api/carousel", cookie) EXCEPT !.id = id] IN
    /\ Free(r)
    /\ UNCHANGED <<dbVars, sessVars, procVars>>
    /\ IF ~CheckAuth(Session(cookie))
       THEN req' = [req EXCEPT ![r] = Unauthorized(q)]
       ELSE IF id = 0
       THEN req' = [req EXCEPT ![r] = Respond(q, 400)]
       ELSE \E connected \in BOOLEAN :
               req' = [req EXCEPT ![r] =
                          IF connected THEN [q EXCEPT !.pc = "d_begin"] ELSE Respond(q, 0)]

DeleteBegin(r) ==
    \E ok \in BOOLEAN :
    /\ req[r].pc = "d_begin"
    /\ UNCHANGED <<dbVars, sessVars, procVars>>
    /\ req' = [req EXCEPT ![r].pc = IF ok THEN "d_find" ELSE "d_rollback"]

\* Faulty variant: the result of the SELECT is used without the length check.
DeleteFindUnchecked(r) ==
    \E ok \in BOOLEAN :
    LET rows == RowsWithId(carousel, req[r].id) IN
    /\ req[r].pc = "d_find"
    /\ UNCHANGED <<dbVars, sessVars, procVars>>
    /\ req' = [req EXCEPT ![r] =
                  IF ~ok THEN [@ EXCEPT !.pc = "d_rollback"]
                  ELSE [@ EXCEPT !.pc = "d_delete",
                                 !.url = IF rows = {} THEN NoUrl
                                         ELSE (CHOOSE row \in rows : TRUE).image_url]]

\* SELECT image_url ... WHERE id = $1
DeleteFind(r) ==
    \E ok \in BOOLEAN :
    LET rows == RowsWithId(carousel, req[r].id) IN
    /\ req[r].pc = "d_find"
    /\ UNCHANGED <<dbVars, sessVars, procVars>>
    /\ req' = [req EXCEPT ![r] =
                  IF ~ok THEN [@ EXCEPT !.pc = "d_rollback"]
                  ELSE IF rows = {} THEN [@ EXCEPT !.pc = "d_notfound"]
                  ELSE [@ EXCEPT !.pc = "d_delete",
                                 !.url = (CHOOSE row \in rows : TRUE).image_url]]

\* if (findResult.rows.length === 0) { ROLLBACK; return 404 }
DeleteNotFound(r) ==
    \E ok \in BOOLEAN :
    /\ req[r].pc = "d_notfound"
    /\ UNCHANGED <<dbVars, sessVars, procVars>>
    /\ req' = [req EXCEPT ![r] =
                  IF ok THEN Respond(@, 404) ELSE [@ EXCEPT !.pc = "d_rollback"]]

\* Faulty variant: deleteResult.rowCount is not looked at.
DeleteRowUnchecked(r) ==
    \E ok \in BOOLEAN :
    LET q == req[r] IN
    /\ q.pc = "d_delete"
    /\ ~LockedByOther(r, q.id)
    /\ UNCHANGED <<dbVars, sessVars, procVars>>
    /\ req' = [req EXCEPT ![r] =
                  IF ~ok
                  THEN [q EXCEPT !.pc = "d_rollback"]
                  ELSE [q EXCEPT !.locked = TRUE,
                                 !.pc = IF StartsWithHttp(q.url) THEN "d_head"
                                        ELSE "d_commit"]]

\* DELETE FROM carousel_images WHERE id = $1 and the rowCount check
DeleteRow(r) ==
    \E ok \in BOOLEAN :
    LET q == req[r] IN
    /\ q.pc = "d_delete"
    /\ ~LockedByOther(r, q.id)
    /\ UNCHANGED <<dbVars, sessVars, procVars>>
    /\ req' = [req EXCEPT ![r] =
                  IF ~ok \/ RowsWithId(carousel, q.id) = {}
                  THEN [q EXCEPT !.pc = "d_rollback"]
                  ELSE [q EXCEPT !.locked = TRUE,
                                 !.pc = IF StartsWithHttp(q.url) THEN "d_head"
                                        ELSE "d_commit"]]

\* head(imageUrlToDelete): "ok" when the blob exists, "404" when it does
\* not, "error" for any other failure.
DeleteHead(r) ==
    \E outcome \in {"ok", "404", "error"} :
    /\ req[r].pc = "d_head"
    /\ outcome = "ok" => req[r].url \in blobs
    /\ outcome = "404" => req[r].url \notin blobs
    /\ UNCHANGED <<dbVars, sessVars, procVars>>
    /\ req' = [req EXCEPT ![r].pc =
                  IF outcome = "ok" THEN "d_del"
                  ELSE IF OnBlobError(outcome) = "throw" THEN "d_rollback"
                  ELSE "d_commit",
                          ![r].blobError = CASE outcome = "ok" -> ""
                                             [] outcome = "404" -> "head 404"
                                             [] OTHER -> "head failed"]

\* del(imageUrlToDelete)
DeleteBlob(r) ==
    \E outcome \in {"ok", "error"} :
    /\ req[r].pc = "d_del"
    /\ UNCHANGED <<settings, carousel, nextId, nextBlob, inserted, sessVars, procVars>>
    /\ blobs' = IF outcome = "ok" THEN blobs \ {req[r].url} ELSE blobs
    /\ req' = [req EXCEPT ![r].pc =
                  IF outcome = "ok" THEN "d_commit"
                  ELSE IF OnBlobError(outcome) = "throw" THEN "d_rollback"
                  ELSE "d_commit",
                          ![r].blobError = IF outcome = "ok" THEN "deleted"
                                           ELSE "del failed"]

DeleteCommit(r) ==
    \E ok \in BOOLEAN :
    /\ req[r].pc = "d_commit"
    /\ UNCHANGED <<settings, nextId, blobs, nextBlob, inserted, sessVars, procVars>>
    /\ IF ok
       THEN /\ carousel' = CommitDelete(carousel, req[r].id)
            /\ req' = [req EXCEPT ![r] = Respond(req[r], 200)]
       ELSE /\ carousel' = carousel
            /\ req' = [req EXCEPT ![r].pc = "d_rollback"]

\* catch: ROLLBACK, then the 500 response
DeleteRollback(r) ==
    \E ok \in BOOLEAN :
    /\ req[r].pc = "d_rollback"
    /\ UNCHANGED <<dbVars, sessVars, procVars>>
    /\ req' = [req EXCEPT ![r] = Respond(req[r], IF ok THEN 500 ELSE 0)]

\* ------------------------------------------------------------------------
\* POST /api/submit-contact
\* ------------------------------------------------------------------------
MaxMails == 2

\* req.body and the check of its four fields
SubmitContact(r, forms) ==
    \E form \in forms :
    LET q == [NewReq("POST /api/submit-contact", NoCookie) EXCEPT !.form = form] IN
    /\ Free(r)
    /\ Len(mails) < MaxMails
    /\ UNCHANGED <<dbVars, sessVars, procVars>>
    /\ req' = [req EXCEPT ![r] =
                  IF FieldMissing(form)
                  THEN [Respond(q, 400) EXCEPT !.err = "All fields are required."]
                  ELSE [q EXCEPT !.pc = "c_query"]]

\* await db.query(...) with its catch, then the dispatch on contactFormAction
\* up to the response or the call of sendMail
ContactQuery(r) ==
    \E ok \in BOOLEAN :
    LET cfg == IF ok THEN ContactSettings(settings) ELSE NoContactSettings
        contactFormAction == ContactFormAction(cfg, env)
        whatsAppNumber == WhatsAppNumber(cfg, env)
        recipientEmail == RecipientEmail(cfg, env)
        q == [req[r] EXCEPT !.queried = IF ok THEN "ok" ELSE "failed",
                            !.contactFormAction = contactFormAction]
    IN
    /\ req[r].pc = "c_query"
    /\ UNCHANGED <<dbVars, sessVars, procVars>>
    /\ req' = [req EXCEPT ![r] =
          IF contactFormAction = <<"whatsapp">> THEN
              IF whatsAppNumber = <<>>
              THEN [Respond(q, 500) EXCEPT !.err = "WhatsApp number not set."]
              ELSE [Respond(q, 200) EXCEPT
                        !.action = "whatsapp",
                        !.whatsappUrl = WhatsappUrl(whatsAppNumber, q.form)]
          ELSE IF contactFormAction = <<"email">> THEN
              IF ~env.mailTransporter
              THEN [Respond(q, 500) EXCEPT !.err = "Email service not available."]
              ELSE IF recipientEmail = <<>>
              THEN [Respond(q, 500) EXCEPT !.err = "Recipient email not set."]
              ELSE [q EXCEPT !.pc = "c_send",
                             !.mailOptions = MailOptions(q.form, recipientEmail)]
          ELSE [Respond(q, 500) EXCEPT !.err = "Invalid contact form action."]]

\* One call of sendMail by a request, as the history records it
SendMail(q, ok) == [mailOptions |-> q.mailOptions, delivered |-> ok]

\* Faulty variant: a failed sendMail is tried a second time.
ContactSendRetry(r) ==
    \E ok \in BOOLEAN, again \in BOOLEAN :
    /\ req[r].pc = "c_send"
    /\ mails' = IF ok THEN Append(mails, SendMail(req[r], TRUE))
                ELSE mails \o <<SendMail(req[r], FALSE), SendMail(req[r], again)>>
    /\ UNCHANGED <<dbVars, sessVars, env, boot>>
    /\ req' = [req EXCEPT ![r] =
                  IF ok \/ again
                  THEN [Respond(req[r], 200) EXCEPT
                            !.action = "email", !.sent = IF ok THEN 1 ELSE 2]
                  ELSE [Respond(req[r], 500) EXCEPT
                            !.action = "email", !.sent = 2,
                            !.err = "Failed to send message."]]

\* await mailTransporter.sendMail(mailOptions) and its catch
ContactSend(r) ==
    \E ok \in BOOLEAN :
    /\ req[r].pc = "c_send"
    /\ mails' = Append(mails, SendMail(req[r], ok))
    /\ UNCHANGED <<dbVars, sessVars, env, boot>>
    /\ req' = [req EXCEPT ![r] =
                  IF ok THEN [Respond(req[r], 200) EXCEPT
                                  !.action = "email", !.sent = @ + 1]
                  ELSE [Respond(req[r], 500) EXCEPT
                            !.action = "email", !.sent = @ + 1,
                            !.err = "Failed to send message."]]

\* A complete form and one without its message
CompleteForm ==
    [contactName |-> <<"Ann">>, contactEmail |-> <<"ann", "@", "mail", ".", "org">>,
     contactSubject |-> <<"Fees">>, contactMessage |-> <<"When", "?">>]

TwoForms == {CompleteForm, [CompleteForm EXCEPT !.contactMessage = <<>>]}

\* ------------------------------------------------------------------------
\* Specifications
\* ------------------------------------------------------------------------
\* The response has left the server: the slot takes the next request.
Deliver(r) ==
    /\ req[r].pc = "done"
    /\ UNCHANGED <<dbVars, sessVars, procVars>>
    /\ req' = [req EXCEPT ![r] = IdleReq]

SessionStep(r) ==
    \/ Login(r)
    \/ LoginQuery(r)
    \/ LoginRegenerate(r, MaxSid)
    \/ LoginSave(r)
    \/ Logout(r)
    \/ Deliver(r)

SettingsWrite(r, bodies) ==
    \/ PostSettings(r, bodies)
    \/ SettingsBegin(r)
    \/ SettingsUpsert(r)
    \/ SettingsCommit(r)
    \/ SettingsRollback(r)

CarouselWrite(r, maxUploads) ==
    \/ PostCarousel(r)
    \/ CarouselPut(r, maxUploads)
    \/ CarouselInsert(r)
    \/ DeleteCarousel(r, maxUploads)
    \/ DeleteBegin(r)
    \/ DeleteFind(r)
    \/ DeleteNotFound(r)
    \/ DeleteRow(r)
    \/ DeleteHead(r)
    \/ DeleteBlob(r)
    \/ DeleteCommit(r)
    \/ DeleteRollback(r)

\* The whole server, one request at a time
Next ==
    \/ SessionStep("r1")
    \/ GetSettings("r1")
    \/ GetSettingsReply("r1")
    \/ SettingsWrite("r1", OneBody)
    \/ GetCarousel("r1")
    \/ CarouselWrite("r1", MaxUploadsAll)
    \/ GetAdmin("r1")
    \/ SubmitContact("r1", TwoForms)
    \/ ContactQuery("r1")
    \/ ContactSend("r1")

Spec == Init /\ [][Next]_vars

\* Concurrent writers of the settings store; the requests that take one
\* step are issued in slot r1.
NextSettings ==
    \/ SessionStep("r1")
    \/ GetSettings("r1")
    \/ GetSettingsReply("r1")
    \/ \E r \in AllSlots : SettingsWrite(r, SmallBodies) \/ Deliver(r)

SpecSettings == Init /\ [][NextSettings]_vars

\* The carousel store, one request at a time
NextCarousel ==
    \/ SessionStep("r1")
    \/ GetCarousel("r1")
    \/ CarouselWrite("r1", MaxUploads)

SpecCarousel == Init /\ [][NextCarousel]_vars

\* The settings store with the full range of request values, one request at a
\* time
NextJson ==
    \/ SessionStep("r1")
    \/ GetSettings("r1")
    \/ GetSettingsReply("r1")
    \/ SettingsWrite("r1", RichBodies)

SpecJson == Init /\ [][NextJson]_vars

\* Sessions: logins, logouts and guarded requests of two clients at a time
MaxLogins == 2

NextSession ==
    \E r \in AllSlots :
        \/ Login(r)
        \/ LoginQuery(r)
        \/ LoginRegenerate(r, MaxLogins)
        \/ LoginSave(r)
        \/ Logout(r)
        \/ GetAdmin(r)
        \/ DeleteCarousel(r, 0)
        \/ Deliver(r)

SpecSession == Init /\ [][NextSession]_vars

\* GET /api/carousel over any table content: ids are unique (PRIMARY KEY),
\* display_order is any value, ties included.
MaxRows == 3
MaxOrder == 2

Tables ==
    UNION { { { [id |-> i, image_url |-> Url(i), display_order |-> ord[i]] : i \in ids }
              : ord \in [ids -> 1..MaxOrder] }
            : ids \in SUBSET (1..MaxRows) }

InitList ==
    /\ sessionMw \in BOOLEAN
    /\ store = << >>
    /\ loggedOut = {}
    /\ env = NoEnv
    /\ mails = << >>
    /\ boot = [p \in Procs |-> Up]
    /\ nextSid = 1
    /\ users = {[username |-> defaultAdminUsername,
                 password |-> Hash(defaultAdminPasswordPlain)]}
    /\ settings = {}
    /\ carousel \in Tables
    /\ nextId = MaxRows + 1
    /\ blobs = {row.image_url : row \in carousel}
    /\ nextBlob = MaxRows + 1
    /\ inserted = << >>
    /\ req = [r \in AllSlots |-> IdleReq]

NextList == GetCarousel("r1") \/ Deliver("r1")

SpecList == InitList /\ [][NextList]_vars

\* ------------------------------------------------------------------------
\* Specifications of the contact form
\* ------------------------------------------------------------------------
\* The contact form over the configurations of the settings store and of the
\* environment
SchoolNumber == <<"+", "9", "1", " ", "5", "-", "5">>
SchoolEmail == <<"office", "@", "school", ".", "in">>

ContactTables ==
    { {[setting_name |-> "contactFormAction", setting_value |-> a] : a \in acts}
        \cup {[setting_name |-> "adminSchoolWhatsappNumber", setting_value |-> SchoolNumber] : x \in nums}
        \cup {[setting_name |-> "schoolContactEmail", setting_value |-> SchoolEmail] : y \in tos}
      : acts \in {{}, {<<>>}, {<<"whatsapp">>}, {<<"email">>}, {<<"sms">>}},
        nums \in {{}, {1}}, tos \in {{}, {1}} }

Envs ==
    [CONTACT_FORM_ACTION_DEFAULT : {<<>>, <<"email">>, <<"fax">>},
     SCHOOL_WHATSAPP_NUMBER : {<<>>, EnvNumber},
     SCHOOL_CONTACT_EMAIL_TO : {<<>>, EnvEmail},
     mailTransporter : BOOLEAN]

Forms ==
    [contactName : {<<>>, <<"Ann">>},
     contactEmail : {<<>>, <<"ann", "@", "mail", ".", "org">>},
     contactSubject : {<<>>, <<"Fees", " ", "&", " ", "dates">>},
     contactMessage : {<<>>, <<"1", "+", "1", "?", "\n", "100", "%">>}]

InitContact ==
    /\ sessionMw \in BOOLEAN
    /\ store = << >>
    /\ loggedOut = {}
    /\ env \in Envs
    /\ mails = << >>
    /\ boot = [p \in Procs |-> Up]
    /\ nextSid = 1
    /\ users = {[username |-> defaultAdminUsername,
                 password |-> Hash(defaultAdminPasswordPlain)]}
    /\ settings \in ContactTables
    /\ carousel = {}
    /\ nextId = 1
    /\ blobs = {}
    /\ nextBlob = 1
    /\ inserted = << >>
    /\ req = [r \in AllSlots |-> IdleReq]

NextContact ==
    \/ SubmitContact("r1", Forms)
    \/ ContactQuery("r1")
    \/ ContactSend("r1")
    \/ Deliver("r1")

SpecContact == InitContact /\ [][NextContact]_vars

\* ------------------------------------------------------------------------
\* Concurrent DELETE /api/carousel/:id
\* ------------------------------------------------------------------------
\* The id both clients ask to delete, and the row that nobody asks for
TargetId == 1
OtherRow == [id |-> 2, image_url |-> Url(2), display_order |-> 2]

\* An admin is logged in and the carousel holds the target row, with its blob
\* still there or already gone, and possibly a second row.
InitRace ==
    /\ sessionMw = TRUE
    /\ store = (1 :> AuthSession(defaultAdminUsername))
    /\ loggedOut = {}
    /\ env = ServerEnv
    /\ mails = << >>
    /\ boot = [p \in Procs |-> Up]
    /\ nextSid = 2
    /\ users = {[username |-> defaultAdminUsername,
                 password |-> Hash(defaultAdminPasswordPlain)]}
    /\ settings = {}
    /\ \E others \in {{}, {OtherRow}} :
          /\ carousel = {[id |-> TargetId, image_url |-> Url(TargetId), display_order |-> 1]}
                            \cup others
          /\ \E present \in SUBSET {Url(TargetId)} :
                blobs = present \cup {row.image_url : row \in others}
    /\ nextId = 3
    /\ nextBlob = 3
    /\ inserted = << >>
    /\ req = [r \in AllSlots |-> IdleReq]

\* Each of the two clients sends one DELETE for the target id
NextRace ==
    \E r \in AllSlots :
        \/ DeleteCarousel(r, TargetId)
        \/ DeleteBegin(r)
        \/ DeleteFind(r)
        \/ DeleteNotFound(r)
        \/ DeleteRow(r)
        \/ DeleteHead(r)
        \/ DeleteBlob(r)
        \/ DeleteCommit(r)
        \/ DeleteRollback(r)

SpecRace == InitRace /\ [][NextRace]_vars

\* ------------------------------------------------------------------------
\* Process start: initializeDatabase()
\* ------------------------------------------------------------------------
MaxStarts == 2

\* process.env.ADMIN_PASSWORD_PLAIN || 'password123' at a start
AdminPasswords == {defaultAdminPasswordPlain, "s3cret"}

\* Faulty variant: the users table without UNIQUE on username.
InsertUserNoUnique(table, row) == [ok |-> TRUE, table |-> table \cup {row}]

\* INSERT INTO users on a table with username TEXT UNIQUE
InsertUser(table, row) ==
    IF \E u \in table : u.username = row.username
    THEN [ok |-> FALSE, table |-> table]
    ELSE [ok |-> TRUE, table |-> table \cup {row}]

\* What a start leaves when a statement throws: the catch logs the error
Failed(b) == [b EXCEPT !.pc = "up", !.err = TRUE]

\* A process starts: the three CREATE TABLE IF NOT EXISTS statements
StartProcess(p) ==
    \E plain \in AdminPasswords, ok \in BOOLEAN :
    LET b == [pc |-> "b_select", plain |-> plain, err |-> FALSE, n |-> boot[p].n + 1] IN
    /\ boot[p].pc = "off"
    /\ boot[p].n < MaxStarts
    /\ boot' = [boot EXCEPT ![p] = IF ok THEN b ELSE Failed(b)]
    /\ UNCHANGED <<dbVars, sessVars, env, mails, req>>

\* SELECT * FROM users WHERE username = $1 and the test of result.rows.length
StartSelect(p) ==
    \E ok \in BOOLEAN :
    /\ boot[p].pc = "b_select"
    /\ boot' = [boot EXCEPT ![p] =
                   IF ~ok THEN Failed(@)
                   ELSE IF \E u \in users : u.username = defaultAdminUsername
                        THEN [@ EXCEPT !.pc = "up"]
                        ELSE [@ EXCEPT !.pc = "b_insert"]]
    /\ UNCHANGED <<dbVars, sessVars, env, mails, req>>

\* bcrypt.hash and INSERT INTO users (username, password)
StartInsert(p) ==
    \E ok \in BOOLEAN :
    LET row == [username |-> defaultAdminUsername, password |-> Hash(boot[p].plain)]
        ins == InsertUser(users, row)
    IN
    /\ boot[p].pc = "b_insert"
    /\ users' = IF ok THEN ins.table ELSE users
    /\ boot' = [boot EXCEPT ![p] = IF ok /\ ins.ok THEN [@ EXCEPT !.pc = "up"] ELSE Failed(@)]
    /\ UNCHANGED <<dbVars, sessionMw, store, nextSid, loggedOut, env, mails, req>>

\* The process ends; it can be started again
StopProcess(p) ==
    /\ boot[p].pc = "up"
    /\ boot' = [boot EXCEPT ![p] = [@ EXCEPT !.pc = "off"]]
    /\ UNCHANGED <<dbVars, sessVars, env, mails, req>>

\* Starts and restarts of two processes on a database that is empty or
\* already populated
UserTables ==
    { guests \cup admins :
        guests \in {{}, {[username |-> "guest", password |-> Hash("wrong")]}},
        admins \in {{}} \cup {{[username |-> defaultAdminUsername, password |-> Hash(pw)]}
                                : pw \in AdminPasswords \cup {"old"}} }

InitSeed ==
    /\ sessionMw \in BOOLEAN
    /\ store = << >>
    /\ loggedOut = {}
    /\ env = NoEnv
    /\ mails = << >>
    /\ boot = [p \in Procs |-> Down]
    /\ nextSid = 1
    /\ users \in UserTables
    /\ settings = {}
    /\ carousel = {}
    /\ nextId = 1
    /\ blobs = {}
    /\ nextBlob = 1
    /\ inserted = << >>
    /\ req = [r \in AllSlots |-> IdleReq]

NextSeed ==
    \E p \in Procs :
        \/ StartProcess(p)
        \/ StartSelect(p)
        \/ StartInsert(p)
        \/ StopProcess(p)

SpecSeed == InitSeed /\ [][NextSeed]_vars

\* ------------------------------------------------------------------------
\* Properties
\* ------------------------------------------------------------------------
MutatingRoutes == {"POST /api/settings", "POST /api/carousel", "DELETE /api/carousel"}

\* The session a cookie names is stored and marked authenticated.
IsLoggedIn(cookie) ==
    sessionMw /\ cookie \in DOMAIN store /\ store[cookie].authenticated

\* Slot r takes a request in this step.
Arrives(r) == req[r].pc = "idle" /\ req'[r].pc # "idle"

\* Slot r's handler takes a step after an await.
Steps(r, route) ==
    req[r].route = route /\ req[r].pc \notin {"idle", "done"} /\ req'[r] # req[r]

Answers(r, status) == req'[r].pc = "done" /\ req'[r].status = status

\* C1: a request to POST /api/settings, POST /api/carousel or
\* DELETE /api/carousel/:id whose session is not authenticated (no cookie, a
\* session id the store does not hold, a logged-out session) is answered 401
\* in the step it arrives, and the settings table, the carousel table and
\* the blob store are left as they were.
C1_AuthGate ==
    [][\A r \in AllSlots :
          (Arrives(r) /\ req'[r].route \in MutatingRoutes /\ ~IsLoggedIn(req'[r].cookie))
          => (Answers(r, 401) /\ UNCHANGED <<settings, carousel, blobs>>)]_vars

\* A DELETE presenting the id of a session that was logged out is answered
\* 401 while the carousel holds a row.
C1_Witness ==
    \E r \in AllSlots :
        /\ req[r].pc = "done" /\ req[r].status = 401
        /\ req[r].route = "DELETE /api/carousel"
        /\ req[r].cookie \in 1..(nextSid - 1)
        /\ req[r].cookie \notin DOMAIN store
        /\ carousel # {}

\* Every entry of a request body is in the table with its stored text.
AllStored(table, body) ==
    \A j \in 1..Len(body) :
        [setting_name |-> body[j][1], setting_value |-> ValueToStore(body[j][2])] \in table

\* C2: setMany is atomic.  Every step of a POST /api/settings handler either
\* answers 200 and leaves every entry of the body stored, or leaves the
\* settings table unchanged; a handler that ends without storing the body
\* answers 500 (or nothing at all when the ROLLBACK itself is rejected); the
\* table changes in no other step.
C2_SetManyAtomic ==
    [][/\ \A r \in AllSlots :
             Steps(r, "POST /api/settings")
             => /\ IF Answers(r, 200) THEN AllStored(settings', req[r].body)
                   ELSE settings' = settings
                /\ (req'[r].pc = "done" /\ ~Answers(r, 200))
                      => /\ req[r].pc = "s_rollback"
                         /\ req'[r].status \in {500, 0}
       /\ settings' # settings
             => \E r \in AllSlots : Steps(r, "POST /api/settings") /\ Answers(r, 200)]_vars

\* A transaction about to roll back after a strict, non-empty part of the
\* body was upserted.
C2_Witness ==
    \E r \in AllSlots :
        /\ req[r].pc = "s_rollback"
        /\ Len(req[r].ws) >= 1
        /\ Len(req[r].ws) < Len(req[r].body)

\* Entry j is the last entry of the body with its name.
LastForName(body, j) == \A h \in (j + 1)..Len(body) : body[h][1] # body[j][1]

\* C3: settings round-trip.  When a POST /api/settings commits, getAll() over
\* the table reports, for every entry whose name is a JSON key and whose
\* value is an object or an array, exactly the value sent; and the GET
\* handler answers with getAll() of the table.
C3_RoundTrip ==
    [][\A r \in AllSlots :
          /\ (Steps(r, "POST /api/settings") /\ Answers(r, 200))
                => \A j \in 1..Len(req[r].body) :
                      LET k == req[r].body[j][1]
                          v == req[r].body[j][2]
                      IN (k \in jsonKeys /\ v.t \in {"obj", "arr"}
                             /\ LastForName(req[r].body, j))
                            => /\ ~GetAllThrows(settings')
                               /\ k \in DOMAIN GetAll(settings')
                               /\ GetAll(settings')[k] = v
          /\ (Steps(r, "GET /api/settings") /\ Answers(r, 200))
                => req'[r].out = GetAll(settings)]_vars

\* A GET answers with the nested object that was stored under socialLinks.
C3_Witness ==
    \E r \in AllSlots :
        /\ req[r].route = "GET /api/settings" /\ req[r].pc = "done"
        /\ req[r].status = 200
        /\ "socialLinks" \in DOMAIN req[r].out
        /\ req[r].out["socialLinks"] = Links

\* The step that ends a DELETE /api/carousel/:id handler
DeleteEnds(r) == Steps(r, "DELETE /api/carousel") /\ req'[r].pc = "done"

\* C4: a remove whose head() or del() failed with an error other than "does
\* not exist" ends with an error response and with the carousel row still
\* present.
C4_BlobFailureAborts ==
    [][\A r \in AllSlots :
          (DeleteEnds(r) /\ req[r].blobError \in {"head failed", "del failed"})
          => /\ req'[r].status = 500
             /\ RowsWithId(carousel', req[r].id) # {}]_vars

\* C5: when a remove ends, it is not the case that the row is still there
\* while its blob was deleted, nor that the row is gone while the blob, which
\* head() reported as existing, was left in place by a failed del().
C5_RecordAndFileAgree ==
    [][\A r \in AllSlots :
          DeleteEnds(r)
          => /\ ~(/\ RowsWithId(carousel', req[r].id) # {}
                  /\ req[r].blobError = "deleted"
                  /\ req[r].url \notin blobs')
             /\ ~(/\ RowsWithId(carousel', req[r].id) = {}
                  /\ req[r].blobError = "del failed"
                  /\ req[r].url \in blobs')]_vars

Ids(list) == [j \in 1..Len(list) |-> list[j].id]
Present(table) == {row.id : row \in table}
StillPresent(ids, table) == SelectSeq(ids, LAMBDA i : i \in Present(table))

\* C6: with the requests served one after the other, list() is the sequence
\* of inserted images, in insertion order, without the removed ones; and a
\* step changes no carousel row other than the row a committing remove
\* deletes.
C6_InsertionOrderStable ==
    [][/\ Ids(ListCarousel(carousel')) = StillPresent(inserted', carousel')
       /\ \A row \in carousel :
             \/ row \in carousel'
             \/ \E r \in AllSlots :
                   /\ DeleteEnds(r) /\ Answers(r, 200)
                   /\ req[r].id = row.id]_vars

\* Three images were added, the middle one was removed, and a GET lists the
\* first and the third.
C6_Witness ==
    /\ inserted = <<1, 2, 3>>
    /\ \E r \in AllSlots :
          /\ req[r].route = "GET /api/carousel" /\ req[r].pc = "done"
          /\ req[r].status = 200
          /\ Ids(req[r].list) = <<1, 3>>
          /\ req[r].list[2].display_order = 3

\* C7: the row an add inserts has display_order 1 when the table was empty
\* and one more than the largest display_order in the table otherwise; with
\* the requests served one after the other, the most recently added image,
\* while present, is the last element of list().
C7_MaxPlusOne ==
    [][/\ \A r \in AllSlots :
             (Steps(r, "POST /api/carousel") /\ Answers(r, 201))
             => \E new \in carousel' :
                   /\ carousel' = carousel \cup {new}
                   /\ new \notin carousel
                   /\ new.image_url = req[r].url
                   /\ \A row \in carousel : new.display_order > row.display_order
                   /\ IF carousel = {} THEN new.display_order = 1
                      ELSE \E row \in carousel :
                              new.display_order = row.display_order + 1
       /\ (inserted' # <<>> /\ inserted'[Len(inserted')] \in Present(carousel'))
             => LET list == ListCarousel(carousel') IN
                list[Len(list)].id = inserted'[Len(inserted')]]_vars

\* The last image was removed before the next add: the new row takes that
\* display_order again and is listed last.
C7_Witness ==
    /\ inserted = <<1, 2, 3>>
    /\ \E r \in AllSlots :
          /\ req[r].route = "GET /api/carousel" /\ req[r].pc = "done"
          /\ req[r].status = 200
          /\ Ids(req[r].list) = <<1, 3>>
          /\ req[r].list[2].display_order = 2

\* C8: the list a GET /api/carousel answers holds every row of the table
\* exactly once, display_order never decreases along it, and rows with equal
\* display_order follow each other by ascending id.
C8_ListSorted ==
    \A r \in AllSlots :
        (req[r].route = "GET /api/carousel" /\ req[r].pc = "done" /\ req[r].status = 200)
        => LET list == req[r].list IN
           /\ Len(list) = Cardinality(carousel)
           /\ {list[j] : j \in 1..Len(list)} = carousel
           /\ \A i, j \in 1..Len(list) :
                 i < j => \/ list[i].display_order < list[j].display_order
                          \/ /\ list[i].display_order = list[j].display_order
                             /\ list[i].id < list[j].id

\* A list of three rows in which two rows share a display_order and a row
\* with a larger id comes before one with a smaller id.
C8_Witness ==
    \E r \in AllSlots :
        /\ req[r].route = "GET /api/carousel" /\ req[r].pc = "done"
        /\ req[r].status = 200
        /\ Len(req[r].list) = 3
        /\ req[r].list[2].display_order = req[r].list[3].display_order
        /\ req[r].list[1].id > req[r].list[2].id

NamesOf(body) == {body[j][1] : j \in 1..Len(body)}

\* C9: the settings table never holds two rows of the same name; a
\* committing setMany leaves, for each name of its map, the one row holding
\* the text of the value it sent (and getAll() reports what that text
\* decodes to), leaves every row of another name as it was and adds no other
\* name; no other step changes the table.
C9_UniqueLastWriteWins ==
    [][/\ \A a, b \in settings' : a.setting_name = b.setting_name => a = b
       /\ \A r \in AllSlots :
             (Steps(r, "POST /api/settings") /\ Answers(r, 200))
             => LET body == req[r].body IN
                /\ \A j \in 1..Len(body) :
                      LastForName(body, j)
                      => LET text == ValueToStore(body[j][2]) IN
                         /\ {row \in settings' : row.setting_name = body[j][1]}
                               = {[setting_name |-> body[j][1], setting_value |-> text]}
                         /\ GetAll(settings')[body[j][1]] = SettingValue(body[j][1], text).v
                /\ \A row \in settings :
                      row.setting_name \notin NamesOf(body) => row \in settings'
                /\ \A row \in settings' :
                      row.setting_name \notin NamesOf(body) => row \in settings
       /\ settings' # settings
             => \E r \in AllSlots : Steps(r, "POST /api/settings") /\ Answers(r, 200)]_vars

\* schoolName was written by two maps and holds the later value, while
\* facilityCards still holds the text written with the earlier one: the later
\* map did not contain it.
C9_Witness ==
    /\ [setting_name |-> "facilityCards", setting_value |-> <<"[", "]">>] \in settings
    /\ [setting_name |-> "schoolName", setting_value |-> <<"x">>] \in settings

\* C10: the step that builds the answer of GET /api/settings answers 200
\* whatever the rows hold; a JSON key whose stored text is empty or does not
\* parse is reported as [] for facilityCards and as {} otherwise, and every
\* other name is reported as its stored text or as the value its text parses
\* to.
C10_GetAllNeverFails ==
    [][\A r \in AllSlots :
          Steps(r, "GET /api/settings")
          => /\ Answers(r, 200)
             /\ DOMAIN req'[r].out = SettingNames(req[r].rows)
             /\ \A row \in req[r].rows :
                   LET name == row.setting_name
                       text == row.setting_value
                       got == req'[r].out[name]
                   IN IF name \notin jsonKeys THEN got = JStr(text)
                      ELSE IF text # <<>> /\ JSONparse(text).ok
                      THEN got = JSONparse(text).v
                      ELSE IF name = "facilityCards" THEN got = EmptyArr
                      ELSE got = EmptyObj]_vars

\* A GET answers [] for facilityCards while the stored text is the cut-off
\* text "[5".
C10_Witness ==
    \E r \in AllSlots :
        /\ req[r].route = "GET /api/settings" /\ req[r].pc = "done"
        /\ req[r].status = 200
        /\ [setting_name |-> "facilityCards", setting_value |-> <<"[", "5">>] \in settings
        /\ req[r].out["facilityCards"] = EmptyArr

\* The text the encoding rule asks for: a string as it is, null and
\* undefined as the empty text, anything else as its JSON serialization.
Encoded(v) ==
    CASE v.t = "str" -> v.a
      [] v.t \in {"null", "undef"} -> <<>>
      [] OTHER -> JSONstringify(v)

\* C11: when a POST /api/settings commits, the row of every name of the body
\* holds the sent string unchanged, the empty text for null, and the JSON
\* serialization for every other value (objects, arrays, numbers including
\* 0, booleans including false).
C11_ValueEncoding ==
    [][\A r \in AllSlots :
          (Steps(r, "POST /api/settings") /\ Answers(r, 200))
          => \A j \in 1..Len(req[r].body) :
                LastForName(req[r].body, j)
                => [setting_name |-> req[r].body[j][1],
                    setting_value |-> Encoded(req[r].body[j][2])] \in settings']_vars

\* The credentials a login request carries belong to a user row.
ValidCredentials(q) ==
    \E u \in users : u.username = q.username /\ u.password = Hash(q.password)

\* C12: a login whose username has no user row, or whose password does not
\* match the row's hash, ends at the credential check: it is redirected to
\* the login page with the invalid-credentials error (the server error when
\* the users query itself failed), never to the admin page; no session id is
\* generated and the session store is left as it was.
C12_InvalidCredentials ==
    [][\A r \in AllSlots :
          (Steps(r, "POST /login") /\ req[r].pc = "l_query" /\ ~ValidCredentials(req[r]))
          => /\ req'[r].pc = "done"
             /\ req'[r].loc = IF req'[r].err = "db" THEN "/login.html?error=server"
                              ELSE "/login.html?error=invalid"
             /\ req'[r].loc # "/admin.html"
             /\ req'[r].sid = 0
             /\ UNCHANGED <<store, nextSid>>]_vars

\* A client holding an authenticated session is told its credentials are
\* invalid; the session it holds is still the only one.
C12_Witness ==
    \E r \in AllSlots :
        /\ req[r].route = "POST /login" /\ req[r].pc = "done"
        /\ req[r].loc = "/login.html?error=invalid"
        /\ req[r].cookie \in DOMAIN store
        /\ DOMAIN store = {req[r].cookie}
        /\ nextSid = 2

\* C13: a login answers with the redirect to the admin page only from the
\* save of a session whose id was generated by regenerate after the
\* credentials matched: that id differs from the id the client presented and
\* was held by no client, the stored session carries authenticated = true
\* and the username of the matched user, and the presented id is not in the
\* store.  No step adds a session under an id that some client presented.
C13_RegenerateBeforeAuth ==
    [][/\ \A r \in AllSlots :
             (Steps(r, "POST /login") /\ req'[r].loc = "/admin.html")
             => /\ req[r].pc = "l_save"
                /\ req[r].sid # req[r].cookie
                /\ req[r].sid \notin DOMAIN store
                /\ store'[req[r].sid] = [exists |-> TRUE, authenticated |-> TRUE,
                                         username |-> req[r].username]
                /\ \E u \in users : u.username = req[r].username
                /\ req[r].cookie \notin DOMAIN store'
       /\ \A r \in AllSlots :
             (Steps(r, "POST /login") /\ req'[r].pc = "l_save")
             => /\ req'[r].sid \notin Cookies
                /\ req'[r].sid \notin DOMAIN store'
                /\ req[r].cookie \notin DOMAIN store'
       /\ \A s \in DOMAIN store' \ DOMAIN store :
             /\ \E r \in AllSlots :
                   /\ Steps(r, "POST /login") /\ req[r].pc = "l_save"
                   /\ s = req[r].sid
             /\ \A o \in AllSlots : req[o].cookie # s]_vars

\* A client that presented the authenticated session 1 has logged in again:
\* session 2 is the authenticated one and session 1 is gone.
C13_Witness ==
    \E r \in AllSlots :
        /\ req[r].route = "POST /login" /\ req[r].pc = "done"
        /\ req[r].loc = "/admin.html"
        /\ req[r].cookie = 1 /\ req[r].sid = 2
        /\ DOMAIN store = {2}
        /\ store[2] = [exists |-> TRUE, authenticated |-> TRUE, username |-> "admin"]

\* C14: a login is answered with the redirect to the admin page only by the
\* step in which save succeeded, with the authenticated session in the store
\* when the redirect is sent; a failing regenerate and a failing save are
\* answered with their session error, and a request without req.session is
\* answered with the session configuration error.
C14_SuccessAfterPersist ==
    [][\A r \in AllSlots :
          /\ (Steps(r, "POST /login") /\ req'[r].loc = "/admin.html")
                => /\ req[r].pc = "l_save"
                   /\ req'[r].err = ""
                   /\ req[r].sid \in DOMAIN store'
                   /\ store'[req[r].sid].authenticated
          /\ (Steps(r, "POST /login") /\ req[r].pc = "l_regen" /\ req'[r].pc # "l_save")
                => /\ req'[r].pc = "done"
                   /\ req'[r].loc = "/login.html?error=session"
          /\ (Steps(r, "POST /login") /\ req[r].pc = "l_save"
                 /\ req'[r].loc # "/admin.html")
                => /\ req'[r].pc = "done"
                   /\ req'[r].loc = "/login.html?error=save"
          /\ (Arrives(r) /\ req'[r].route = "POST /login")
                => /\ req'[r].loc # "/admin.html"
                   /\ ~sessionMw
                         => /\ req'[r].pc = "done"
                            /\ req'[r].loc \in {"/login.html?error=required",
                                                "/login.html?error=session-config"}]_vars

\* A login with matching credentials was answered with the save error and no
\* session is stored.
C14_Witness ==
    \E r \in AllSlots :
        /\ req[r].route = "POST /login" /\ req[r].pc = "done"
        /\ req[r].err = "save"
        /\ req[r].loc = "/login.html?error=save"
        /\ req[r].sid = 1
        /\ store = << >>

\* C15: logout is idempotent.  A POST /api/logout whose destroy call did
\* not fail answers 200 whether or not the presented id names a stored
\* session, and whether or not the session middleware is installed; after it
\* the presented id is not in the store; a logout without a stored session
\* leaves the store as it was, and no logout touches another session.  (The
\* only other answer is 500, when the store's destroy call itself failed.)
C15_LogoutIdempotent ==
    [][\A r \in AllSlots :
          (Arrives(r) /\ req'[r].route = "POST /api/logout")
          => LET cookie == req'[r].cookie IN
             /\ req'[r].pc = "done"
             /\ req'[r].err = ""
                   => /\ req'[r].status = 200
                      /\ cookie \notin DOMAIN store'
             /\ req'[r].err # ""
                   => /\ req'[r].status = 500
                      /\ sessionMw
                      /\ store' = store
             /\ ~sessionMw => req'[r].status = 200
             /\ cookie \notin DOMAIN store => store' = store
             /\ \A s \in DOMAIN store \ {cookie} :
                   s \in DOMAIN store' /\ store'[s] = store[s]]_vars

\* Two logouts presenting the same session id have both been answered 200:
\* the later of the two found no session.
C15_Witness ==
    /\ req["r1"].route = "POST /api/logout" /\ req["r2"].route = "POST /api/logout"
    /\ \A r \in AllSlots : /\ req[r].pc = "done" /\ req[r].status = 200
                           /\ req[r].cookie = 1 /\ req[r].err = ""
    /\ 1 \notin DOMAIN store
    /\ sessionMw

GuardedRoutes == MutatingRoutes \cup {"GET /admin"}

\* checkAuth turned the request away.
Rejected(q) ==
    /\ q.pc = "done"
    /\ \/ q.status = 401
       \/ q.status = 302 /\ q.loc = "/login.html?unauthorized=true"

\* C16: a session id for which a logout answered 200 is in the session store
\* in no later state, and every later request that presents it to a guarded
\* route is turned away by the guard, also after other logins have
\* succeeded (a login creates a session under a new id).
C16_LoggedOutStaysOut ==
    [][/\ \A s \in loggedOut' : s \notin DOMAIN store'
       /\ \A r \in AllSlots :
             (Arrives(r) /\ req'[r].route \in GuardedRoutes
                 /\ req'[r].cookie \in loggedOut)
             => Rejected(req'[r])]_vars

\* Session 1 was logged out and session 2 was created by a later login; a
\* request for the admin page that presents session 1 is redirected to the
\* login page.
C16_Witness ==
    \E r \in AllSlots :
        /\ req[r].route = "GET /admin" /\ req[r].cookie = 1
        /\ Rejected(req[r])
        /\ 1 \in loggedOut
        /\ 2 \in DOMAIN store /\ store[2].authenticated

\* C17: the guard answers a request that is not authenticated by the kind of
\* its path: 401 with the redirect hint /login.html?unauthorized=true for
\* POST /api/settings, POST /api/carousel and DELETE /api/carousel/:id, and
\* a 302 redirect to /login.html?unauthorized=true for GET /admin; an
\* authenticated request reaches its handler, which does not answer as the
\* guard does.
C17_GuardByPathKind ==
    [][\A r \in AllSlots :
          (Arrives(r) /\ req'[r].route \in GuardedRoutes)
          => LET q == req'[r] IN
             IF IsLoggedIn(q.cookie)
             THEN /\ ~Rejected(q)
                  /\ q.redirectTo = ""
                  /\ q.route = "GET /admin" => (q.status = 200 /\ q.out = <<"admin.html">>)
             ELSE /\ q.pc = "done"
                  /\ IF q.route \in MutatingRoutes
                     THEN /\ q.status = 401
                          /\ q.redirectTo = "/login.html?unauthorized=true"
                          /\ q.loc = ""
                     ELSE /\ q.status = 302
                          /\ q.loc = "/login.html?unauthorized=true"
                          /\ q.redirectTo = ""]_vars

\* A POST /api/carousel that presents a logged-out session id is answered 401
\* with the hint.
C17_Witness ==
    \E r \in AllSlots :
        /\ req[r].route = "POST /api/carousel" /\ req[r].pc = "done"
        /\ req[r].status = 401
        /\ req[r].redirectTo = "/login.html?unauthorized=true"
        /\ req[r].cookie = 1 /\ 1 \notin DOMAIN store

\* C18: a remove whose id matches no carousel row goes from the SELECT to
\* the not-found exit: it is answered 404 (500 or nothing when the ROLLBACK
\* statement itself fails), no step of it changes the carousel table or the
\* blob store, no blob call is made, and 404 is answered in no other case.
C18_RemoveNotFound ==
    [][\A r \in AllSlots :
          /\ (Steps(r, "DELETE /api/carousel") /\ req[r].pc = "d_find"
                 /\ RowsWithId(carousel, req[r].id) = {})
                => req'[r].pc \in {"d_notfound", "d_rollback"}
          /\ (Steps(r, "DELETE /api/carousel") /\ req[r].pc = "d_notfound")
                => /\ UNCHANGED <<carousel, blobs>>
                   /\ req[r].blobError = ""
                   /\ ~req[r].locked
                   /\ Answers(r, 404) \/ req'[r].pc = "d_rollback"
          /\ (Steps(r, "DELETE /api/carousel") /\ req[r].pc = "d_rollback"
                 /\ req[r].url = NoUrl)
                => /\ UNCHANGED <<carousel, blobs>>
                   /\ req'[r].status \in {500, 0}
          /\ (req'[r].route = "DELETE /api/carousel" /\ Answers(r, 404) /\ req[r].pc # "done")
                => /\ req[r].pc = "d_notfound"
                   /\ RowsWithId(carousel, req[r].id) = {}]_vars

\* The first image was removed and a later remove was answered 404; the
\* second image and its blob are untouched.
C18_Witness ==
    \E r \in AllSlots :
        /\ req[r].route = "DELETE /api/carousel" /\ req[r].pc = "done"
        /\ req[r].status = 404
        /\ inserted = <<1, 2>>
        /\ Present(carousel) = {2}
        /\ Url(2) \in blobs

\* C19: a remove of an existing row whose blob head() reports as not
\* existing goes on to COMMIT without touching the table or the blob store;
\* its COMMIT step answers 200 with the row, and only that row, deleted
\* (when the COMMIT statement itself fails the request rolls back).
C19_MissingBlobTolerated ==
    [][\A r \in AllSlots :
          /\ (Steps(r, "DELETE /api/carousel") /\ req[r].pc = "d_head"
                 /\ req[r].url \notin blobs /\ req'[r].blobError # "head failed")
                => /\ req'[r].pc = "d_commit"
                   /\ req'[r].blobError = "head 404"
                   /\ UNCHANGED <<carousel, blobs>>
          /\ (Steps(r, "DELETE /api/carousel") /\ req[r].pc = "d_commit"
                 /\ req[r].blobError = "head 404")
                => \/ /\ Answers(r, 200)
                      /\ carousel' = {row \in carousel : row.id # req[r].id}
                      /\ carousel' # carousel
                      /\ blobs' = blobs
                   \/ /\ req'[r].pc = "d_rollback"
                      /\ UNCHANGED <<carousel, blobs>>]_vars

\* A remove found the blob missing and was answered 200; the row is gone.
C19_Witness ==
    \E r \in AllSlots :
        /\ req[r].route = "DELETE /api/carousel" /\ req[r].pc = "done"
        /\ req[r].status = 200
        /\ req[r].blobError = "head 404"
        /\ inserted = <<1>> /\ carousel = {}

\* C20: an add uploads once and then inserts once.  Its upload step either
\* stores one new blob and goes on to the INSERT, or answers 500 leaving the
\* blob store and the table as they were; its INSERT step either answers 201
\* with one new row holding the uploaded url, or answers 500 with the table
\* as it was, the uploaded blob still stored and referenced by no row; the
\* INSERT step never uploads, and no other step stores a blob.
C20_UploadThenInsert ==
    [][/\ \A r \in AllSlots :
             /\ (Steps(r, "POST /api/carousel") /\ req[r].pc = "a_put")
                   => \/ /\ req'[r].pc = "a_insert"
                         /\ req'[r].url \notin blobs
                         /\ blobs' = blobs \cup {req'[r].url}
                         /\ carousel' = carousel
                      \/ /\ Answers(r, 500)
                         /\ UNCHANGED <<blobs, carousel, nextId>>
             /\ (Steps(r, "POST /api/carousel") /\ req[r].pc = "a_insert")
                   => /\ blobs' = blobs
                      /\ req[r].url \in blobs
                      /\ \/ /\ Answers(r, 201)
                            /\ \E row \in carousel' :
                                  /\ row.image_url = req[r].url
                                  /\ carousel' = carousel \cup {row}
                                  /\ row \notin carousel
                         \/ /\ Answers(r, 500)
                            /\ carousel' = carousel
                            /\ \A row \in carousel' : row.image_url # req[r].url
       /\ blobs' \ blobs # {}
             => \E r \in AllSlots :
                   /\ Steps(r, "POST /api/carousel") /\ req[r].pc = "a_put"
                   /\ Cardinality(blobs' \ blobs) = 1]_vars

\* An add was answered 500 after its upload: the blob is stored and no row
\* was ever inserted.
C20_Witness ==
    \E r \in AllSlots :
        /\ req[r].route = "POST /api/carousel" /\ req[r].pc = "done"
        /\ req[r].status = 500
        /\ blobs = {Url(1)}
        /\ carousel = {} /\ inserted = << >>

\* ------------------------------------------------------------------------
\* Contact form claims
\* ------------------------------------------------------------------------
ContactRoute == "POST /api/submit-contact"

SomeFieldEmpty(q) ==
    \E f \in {"contactName", "contactEmail", "contactSubject", "contactMessage"} :
        q.form[f] = <<>>

\* C21: a POST /api/submit-contact whose name, email, subject or message is
\* missing or empty is answered 400 at once: the settings were not queried,
\* the response carries no WhatsApp URL and no action, and no mail is sent
\* for it at any step.
C21_ContactValidation ==
    [][\A r \in AllSlots :
          (req'[r].route = ContactRoute /\ SomeFieldEmpty(req'[r]))
              => /\ req'[r].pc = "done"
                 /\ req'[r].status = 400
                 /\ req'[r].queried = "no"
                 /\ req'[r].whatsappUrl = <<>>
                 /\ req'[r].action = ""
                 /\ mails' = mails]_vars

\* A form with a name, an email address and a subject but no message has
\* been answered 400, in a configuration where a complete form would be
\* mailed.
C21_Witness ==
    \E r \in AllSlots :
        /\ req[r].route = ContactRoute
        /\ req[r].pc = "done"
        /\ req[r].status = 400
        /\ req[r].form.contactName # <<>>
        /\ req[r].form.contactEmail # <<>>
        /\ req[r].form.contactSubject # <<>>
        /\ req[r].form.contactMessage = <<>>
        /\ ContactFormAction(ContactSettings(settings), env) = <<"email">>
        /\ env.mailTransporter

\* The value stored under a setting name in a table, "" when there is none
StoredUnder(table, name) ==
    IF \E row \in table : row.setting_name = name /\ row.setting_value # <<>>
    THEN (CHOOSE row \in table : row.setting_name = name /\ row.setting_value # <<>>).setting_value
    ELSE <<>>

\* The rows the request's settings query delivered: none when it failed
RowsRead(q) == IF q.queried = "ok" THEN settings ELSE {}

\* store value if non-empty, else the environment default if set, else whatsapp
ResolvedAction(table) ==
    IF StoredUnder(table, "contactFormAction") # <<>>
    THEN StoredUnder(table, "contactFormAction")
    ELSE IF env.CONTACT_FORM_ACTION_DEFAULT # <<>> THEN env.CONTACT_FORM_ACTION_DEFAULT
    ELSE <<"whatsapp">>

\* A request out of the dispatch with an action that is neither whatsapp nor
\* email has failed with 500, without a URL, an action or a mail
Unresolvable(q) ==
    q.contactFormAction \notin {<<"whatsapp">>, <<"email">>}
        => /\ q.pc = "done"
           /\ q.status = 500
           /\ q.whatsappUrl = <<>>
           /\ q.action = ""
           /\ q.mailOptions = NoMail

\* C22 as stated: the action a contact request uses is the non-empty
\* contactFormAction of the settings store, else the environment default,
\* else whatsapp; any other action fails with 500, no mail and no URL.
C22_Original ==
    \A r \in AllSlots :
        (req[r].route = ContactRoute /\ req[r].queried # "no")
            => /\ req[r].contactFormAction = ResolvedAction(settings)
               /\ Unresolvable(req[r])

\* C22 amended: the action a contact request uses is the non-empty
\* contactFormAction among the rows its settings query delivered (no rows
\* when the query failed, which is only logged), else the environment
\* default, else whatsapp; any other action fails with 500, no mail and no
\* URL.
C22_ActionResolution ==
    \A r \in AllSlots :
        (req[r].route = ContactRoute /\ req[r].queried # "no")
            => /\ req[r].contactFormAction = ResolvedAction(RowsRead(req[r]))
               /\ Unresolvable(req[r])

\* The store holds an empty contactFormAction and the environment default is
\* fax: the request read the store, resolved fax and failed with 500.
C22_Witness ==
    \E r \in AllSlots :
        /\ req[r].route = ContactRoute
        /\ req[r].queried = "ok"
        /\ [setting_name |-> "contactFormAction", setting_value |-> <<>>] \in settings
        /\ req[r].contactFormAction = <<"fax">>
        /\ req[r].pc = "done"
        /\ req[r].status = 500

\* A text with every token that is not a decimal digit removed
RECURSIVE NonDigitsRemoved(_)
NonDigitsRemoved(text) ==
    IF text = <<>> THEN <<>>
    ELSE IF Head(text) \in {"0", "1", "2", "3", "4", "5", "6", "7", "8", "9"}
         THEN <<Head(text)>> \o NonDigitsRemoved(Tail(text))
         ELSE NonDigitsRemoved(Tail(text))

\* Percent-decoding of one token of a URL component
DecodeToken(ch) ==
    CASE ch = "%20" -> " "
      [] ch = "%0A" -> "\n"
      [] ch = "%3A" -> ":"
      [] ch = "%40" -> "@"
      [] ch = "%26" -> "&"
      [] ch = "%2B" -> "+"
      [] ch = "%25" -> "%"
      [] ch = "%3F" -> "?"
      [] ch = "%3D" -> "="
      [] ch = "%2F" -> "/"
      [] ch = "%23" -> "#"
      [] OTHER -> ch

Decoded(text) == [j \in 1..Len(text) |-> DecodeToken(text[j])]

\* Characters that cannot stand unescaped in a URL component
ReservedTokens == {" ", "\n", ":", "@", "&", "+", "%", "?", "=", "/", "#"}

Contains(text, part) ==
    \E j \in 1..(Len(text) - Len(part) + 1) : SubSeq(text, j, j + Len(part) - 1) = part

\* url is https://wa.me/<number without its non-digits>?text=<component>,
\* the component being URL-encoded and decoding to a text that contains the
\* four fields of the form
IsWhatsappLink(url, number, form) ==
    LET n == Len(NonDigitsRemoved(number)) IN
    /\ Len(url) >= n + 2
    /\ url[1] = "https://wa.me/"
    /\ SubSeq(url, 2, n + 1) = NonDigitsRemoved(number)
    /\ url[n + 2] = "?text="
    /\ LET component == SubSeq(url, n + 3, Len(url)) IN
       /\ \A j \in 1..Len(component) : component[j] \notin ReservedTokens
       /\ Contains(Decoded(component), form.contactName)
       /\ Contains(Decoded(component), form.contactEmail)
       /\ Contains(Decoded(component), form.contactSubject)
       /\ Contains(Decoded(component), form.contactMessage)

\* settings-store value if set, else the environment value
ResolvedNumber(table) ==
    IF StoredUnder(table, "adminSchoolWhatsappNumber") # <<>>
    THEN StoredUnder(table, "adminSchoolWhatsappNumber")
    ELSE env.SCHOOL_WHATSAPP_NUMBER

\* The whatsapp branch of a request over the rows of a table
WhatsappBranch(q, table) ==
    /\ q.pc = "done"
    /\ q.mailOptions = NoMail
    /\ IF ResolvedNumber(table) = <<>>
       THEN q.status = 500 /\ q.whatsappUrl = <<>>
       ELSE /\ q.status = 200
            /\ q.action = "whatsapp"
            /\ IsWhatsappLink(q.whatsappUrl, ResolvedNumber(table), q.form)

\* C23 as stated: with action whatsapp the number is the settings-store
\* value if set, else the environment value, else the request fails with
\* 500; a success carries the link built from that number and the form, and
\* no mail is prepared or sent.
C23_Original ==
    \A r \in AllSlots :
        (req[r].route = ContactRoute /\ req[r].contactFormAction = <<"whatsapp">>)
            => WhatsappBranch(req[r], settings)

\* C23 amended: with action whatsapp the number is the value among the rows
\* the request's settings query delivered (no rows when the query failed),
\* else the environment value, else the request fails with 500; a success
\* carries the link https://wa.me/<digits of the number>?text=<URL-encoded
\* text containing name, email, subject and message>, and no mail is prepared
\* or sent.
C23_WhatsappBranch ==
    \A r \in AllSlots :
        (req[r].route = ContactRoute /\ req[r].contactFormAction = <<"whatsapp">>)
            => WhatsappBranch(req[r], RowsRead(req[r]))

\* The stored number +91 5-5 was read and the link to 9155 returned, with a
\* mailer configured and a different number in the environment.
C23_Witness ==
    \E r \in AllSlots :
        /\ req[r].route = ContactRoute
        /\ req[r].queried = "ok"
        /\ req[r].status = 200
        /\ req[r].action = "whatsapp"
        /\ StoredUnder(settings, "adminSchoolWhatsappNumber") = SchoolNumber
        /\ env.SCHOOL_WHATSAPP_NUMBER = EnvNumber
        /\ env.mailTransporter
        /\ SubSeq(req[r].whatsappUrl, 1, 6) = <<"https://wa.me/", "9", "1", "5", "5", "?text=">>

\* settings-store recipient if set, else the environment's
ResolvedRecipient(table) ==
    IF StoredUnder(table, "schoolContactEmail") # <<>>
    THEN StoredUnder(table, "schoolContactEmail")
    ELSE env.SCHOOL_CONTACT_EMAIL_TO

\* The step in which a contact request gets its response
ContactAnswered(r) ==
    /\ req'[r].route = ContactRoute
    /\ req[r].pc # "done"
    /\ req'[r].pc = "done"

\* The step made exactly one call of sendMail, the only one of the request,
\* with reply-to the submitter's address, and the response follows its
\* outcome: success with action email, or the delivery error
OneSend(r, table) ==
    /\ req'[r].sent = 1
    /\ Len(mails') = Len(mails) + 1
    /\ LET m == mails'[Len(mails')] IN
       /\ m.mailOptions.replyTo = req'[r].form.contactEmail
       /\ m.mailOptions.to = ResolvedRecipient(table)
       /\ req'[r].action = "email"
       /\ IF m.delivered
          THEN req'[r].status = 200
          ELSE req'[r].status = 500 /\ req'[r].err = "Failed to send message."

\* C24 as stated: with contactFormAction = email and a recipient configured,
\* a request with its four fields filled in makes exactly one send, with
\* reply-to the submitter's address, and answers success with action email
\* or the delivery error, as the transport decides.
C24_Original ==
    [][\A r \in AllSlots :
          (/\ ContactAnswered(r)
           /\ ~SomeFieldEmpty(req'[r])
           /\ ResolvedAction(settings) = <<"email">>
           /\ ResolvedRecipient(settings) # <<>>)
              => OneSend(r, settings)]_vars

\* C24 amended: when the action resolved from the rows the settings query
\* delivered is email, a recipient is configured in those rows or in the
\* environment, and the mail transporter exists, a request with its four
\* fields filled in makes exactly one send, with reply-to the submitter's
\* address, and answers success with action email or the delivery error, as
\* the transport decides.
C24_EmailBranch ==
    [][\A r \in AllSlots :
          (/\ ContactAnswered(r)
           /\ ~SomeFieldEmpty(req'[r])
           /\ env.mailTransporter
           /\ ResolvedAction(RowsRead(req'[r])) = <<"email">>
           /\ ResolvedRecipient(RowsRead(req'[r])) # <<>>)
              => OneSend(r, RowsRead(req'[r]))]_vars

\* A second mail has failed to leave: the request was answered 500 with
\* action email after one send to the stored recipient.
C24_Witness ==
    \E r \in AllSlots :
        /\ req[r].route = ContactRoute
        /\ req[r].pc = "done"
        /\ req[r].status = 500
        /\ req[r].action = "email"
        /\ req[r].sent = 1
        /\ Len(mails) = 2
        /\ ~mails[2].delivered
        /\ mails[2].mailOptions.to = SchoolEmail
        /\ mails[2].mailOptions.replyTo = req[r].form.contactEmail

\* ------------------------------------------------------------------------
\* Seed admin claim
\* ------------------------------------------------------------------------
SeedRows(table) == {u \in table : u.username = defaultAdminUsername}

\* A start changes the users table only by adding the seed row to a table
\* that has no row of that username; no row is modified or removed
SeedOnlyWhenAbsent ==
    users' # users
        => /\ SeedRows(users) = {}
           /\ \E u \in users' : /\ u.username = defaultAdminUsername
                                /\ users' = users \cup {u}

\* C25 as stated: once a process has started, the users table holds exactly
\* one row of the seed admin's username; a start inserts it only when there
\* is none and modifies no row.
C25_Original ==
    [][/\ SeedOnlyWhenAbsent
       /\ (\E p \in Procs : boot'[p].n > 0 /\ boot'[p].pc \in {"up", "off"})
              => Cardinality(SeedRows(users')) = 1]_vars

\* C25 amended: the users table never holds more than one row of the seed
\* admin's username, and holds exactly one once a start has run through
\* without a database error; a start inserts the row only when there is none
\* and modifies no row. (A start whose statement fails logs the error and
\* leaves the table as it is.)
C25_SeedAdmin ==
    [][/\ SeedOnlyWhenAbsent
       /\ Cardinality(SeedRows(users')) <= 1
       /\ (\E p \in Procs : boot'[p].n > 0 /\ boot'[p].pc \in {"up", "off"} /\ ~boot'[p].err)
              => Cardinality(SeedRows(users')) = 1]_vars

\* On a database with another user but without the admin, a start has created
\* the seed row, and the second start of the other process, with another
\* admin password in its environment, has found the row and left it alone.
C25_Witness ==
    /\ SeedRows(users) = {[username |-> defaultAdminUsername,
                           password |-> Hash(defaultAdminPasswordPlain)]}
    /\ boot["p1"].pc = "up" /\ ~boot["p1"].err /\ boot["p1"].n = 1
    /\ boot["p2"].pc = "up" /\ ~boot["p2"].err /\ boot["p2"].n = 2
    /\ boot["p2"].plain = "s3cret"
    /\ \E u \in users : u.username = "guest"

\* ------------------------------------------------------------------------
\* Error propagation claim
\* ------------------------------------------------------------------------
ApiRoutes ==
    {"GET /api/settings", "POST /api/settings", "GET /api/carousel",
     "POST /api/carousel", "DELETE /api/carousel", "POST /api/logout",
     "POST /api/submit-contact"}

\* C26: every request to an /api/ endpoint gets a response, whichever
\* external step fails: no handler ends without having answered. (A handler
\* that ended without a response is a finished request with status 0; the
\* client of such a request waits for ever.)
C26_AlwaysAnswered ==
    \A r \in AllSlots :
        (req[r].pc = "done" /\ req[r].route \in ApiRoutes) => req[r].status # 0

\* ------------------------------------------------------------------------
\* Server without session middleware
\* ------------------------------------------------------------------------
PublicRoutes == {"GET /api/settings", "GET /api/carousel", "POST /api/submit-contact"}

\* C27: on a server without the session middleware no session is ever
\* stored; a POST /login is refused in the step it arrives, with the session
\* configuration error (or the missing-field error when a field is missing)
\* and before the users table is queried; every request to a guarded route is
\* turned away by the guard and changes nothing; and no request to GET
\* /api/settings, GET /api/carousel or POST /api/submit-contact is turned
\* away or redirected.
C27_NoSessionMiddleware ==
    [][~sessionMw =>
          /\ store' = << >>
          /\ \A r \in AllSlots :
                /\ (Arrives(r) /\ req'[r].route = "POST /login")
                      => /\ req'[r].pc = "done"
                         /\ req'[r].status = 302
                         /\ req'[r].loc \in {"/login.html?error=session-config",
                                             "/login.html?error=required"}
                /\ (Arrives(r) /\ req'[r].route \in GuardedRoutes)
                      => /\ Rejected(req'[r])
                         /\ UNCHANGED <<settings, carousel, blobs>>
                /\ (req'[r].route \in PublicRoutes /\ req'[r].pc = "done")
                      => /\ req'[r].status \in {200, 400, 500}
                         /\ req'[r].redirectTo = ""
                         /\ req'[r].loc = ""]_vars

\* Without the session middleware a contact form has been mailed and
\* answered with success.
C27_Witness ==
    \E r \in AllSlots :
        /\ ~sessionMw
        /\ req[r].route = "POST /api/submit-contact"
        /\ req[r].pc = "done"
        /\ req[r].status = 200
        /\ req[r].action = "email"
        /\ Len(mails) = 1
        /\ mails[1].delivered

\* ------------------------------------------------------------------------
\* Origin of authenticated sessions
\* ------------------------------------------------------------------------
Authenticated(table, sid) == sid \in DOMAIN table /\ table[sid].authenticated

\* C28: a session is authenticated in the store only from the save step of a
\* POST /login whose username has a user row with the hash of the password
\* sent, and it then carries that username; no step of any other request
\* makes a session authenticated, and the username of an authenticated
\* session never changes and always has a user row.
C28_AuthenticatedOnlyByLogin ==
    [][\A sid \in 1..(nextSid' - 1) :
          /\ (Authenticated(store', sid) /\ ~Authenticated(store, sid))
                => \E r \in AllSlots :
                      /\ req[r].route = "POST /login"
                      /\ req[r].pc = "l_save"
                      /\ req[r].sid = sid
                      /\ req'[r].pc = "done"
                      /\ ValidCredentials(req[r])
                      /\ store'[sid].username = req[r].username
          /\ (Authenticated(store', sid) /\ Authenticated(store, sid))
                => store'[sid].username = store[sid].username
          /\ Authenticated(store', sid)
                => \E u \in users : u.username = store'[sid].username]_vars

\* Two sessions are authenticated as admin, one of them by a login whose
\* save reported an error and which was sent back to the login page.
C28_Witness ==
    /\ Authenticated(store, 1) /\ store[1].username = "admin"
    /\ Authenticated(store, 2) /\ store[2].username = "admin"
    /\ \E r \in AllSlots :
          /\ req[r].route = "POST /login"
          /\ req[r].pc = "done"
          /\ req[r].err = "save"
          /\ req[r].sid \in {1, 2}

Ended(r) ==
    /\ req[r].route = "DELETE /api/carousel"
    /\ req[r].pc = "done"
    /\ req[r].status \notin {400, 401}

\* The request in a slot has called del() for the image
CalledDel(r) == req[r].blobError \in {"deleted", "del failed"}

TargetPresent == \E row \in carousel : row.id = TargetId

\* No request touches the other row or its blob
RestUnchanged ==
    /\ OtherRow.image_url \in blobs => OtherRow \in carousel
    /\ \A row \in carousel : row.id # TargetId => row = OtherRow /\ row.image_url \in blobs

\* C30 as stated: when two concurrent DELETEs of the same existing id have
\* ended, at most one was answered 200, the row has been deleted, del() was
\* called for the image by at most one of them, the other request ended
\* with 404 or an error, and the rest of the table is unchanged.
C30_Original ==
    (Ended("r1") /\ Ended("r2"))
        => /\ ~(req["r1"].status = 200 /\ req["r2"].status = 200)
           /\ ~TargetPresent
           /\ ~(CalledDel("r1") /\ CalledDel("r2"))
           /\ \E r \in AllSlots : req[r].status \in {404, 500, 0}
           /\ RestUnchanged

\* C30 amended: when two concurrent DELETEs of the same existing id have
\* ended, at most one was answered 200 and the other ended with 404, 500 or
\* without a response; the row is gone exactly when one of them was answered
\* 200 (both can fail, and the row then stays); del() has succeeded for the
\* image at most once, and was called by both only when the first call
\* failed; the rest of the table is unchanged.
C30_ConcurrentDelete ==
    /\ RestUnchanged
    /\ (Ended("r1") /\ Ended("r2"))
        => /\ ~(req["r1"].status = 200 /\ req["r2"].status = 200)
           /\ \E r \in AllSlots : req[r].status \in {404, 500, 0}
           /\ TargetPresent <=> (\A r \in AllSlots : req[r].status # 200)
           /\ ~(req["r1"].blobError = "deleted" /\ req["r2"].blobError = "deleted")
           /\ (CalledDel("r1") /\ CalledDel("r2"))
                 => \E r \in AllSlots : req[r].blobError = "del failed"

\* Both requests have ended: one deleted the blob and the row and was
\* answered 200, the other was answered 500 without having reached the blob
\* store; the other row and its blob are in place.
C30_Witness ==
    /\ Ended("r1") /\ Ended("r2")
    /\ req["r1"].status = 200 /\ req["r1"].blobError = "deleted"
    /\ req["r2"].status = 500 /\ req["r2"].blobError = ""
    /\ ~TargetPresent
    /\ OtherRow \in carousel /\ OtherRow.image_url \in blobs

====
